---- MODULE Spec2Model ----
(***************************************************************************)
(* Model of the Didish recommendation engine.                              *)
(*                                                                         *)
(*  - the hybrid merge of the class-based RecommendationService            *)
(*    (recommendation-engine-implementation.js): deduplicateRecommendations*)
(*    and the sort/slice of getPersonalizedRecommendations  (SpecMerge);   *)
(*  - the entry points of the object-literal recommendationService and     *)
(*    getBecauseYouWatchedRecommendations, one request at a time and one   *)
(*    step per awaited store call  (Spec), and the same requests while the *)
(*    store is being written  (SpecConcurrent);                            *)
(*  - the two similar-user searches on two users  (SpecSimilar) and on a   *)
(*    target with up to eleven peers  (SpecCrowd);                         *)
(*  - getPersonalizedRecommendations with its two concurrent strategies    *)
(*    (SpecEngine), and the same while the store is being written          *)
(*    (SpecEngineConcurrent);                                              *)
(*  - the content-attribute scoring functions  (SpecScoring) and the       *)
(*    item-similarity score  (SpecItemSimilarity);                         *)
(*  - getDiscoveryRecommendations over two catalogs  (SpecDiscovery);      *)
(*  - the two Pearson correlation functions  (SpecPearson);                *)
(*  - the HeroSection component  (SpecHero).                               *)
(*                                                                         *)
(* Content ids are UUIDs in the repository (DataTypes.UUID), so a JS object*)
(* keyed by content id enumerates its keys in insertion order.  The model  *)
(* writes ids as small naturals; their numeric order stands for the        *)
(* lexicographic order of the UUID strings and is never used as a key      *)
(* order.                                                                  *)
(*                                                                         *)
(* Ratings are whole stars.  Every other number the code computes with the *)
(* arithmetic of JavaScript is an IEEE 754 binary64 value in the model,    *)
(* rounded operation by operation as the engine rounds it.                 *)
(***************************************************************************)
EXTENDS Integers, Sequences, FiniteSets, TLC

VARIABLES
    allRecommendations,     \* engine: [...collaborativeRecs, ...contentBasedRecs]
    uniqueRecommendations,  \* engine: result of deduplicateRecommendations
    personalized,           \* engine: list returned by getPersonalizedRecommendations
    mergeLimit,             \* engine: the caller's limit of the merge that produced `personalized`
    ratings,                \* store: user_ratings, ratings[u][c] in 1..5, 0 = no row
    completed,              \* store: user_content_status rows with status 'completed', as <<user, content>>
    updatedAt,              \* store: per status row, the days since its updated_at
    rowOrder,               \* store: the order in which the database returns content rows that no ORDER BY ranks
    genreRows,              \* store: the ids of the rows of db.genre
    orderByAlias,           \* store: whether the database takes the unquoted popularityScore of an ORDER BY for the select alias "popularityScore"
    call,                   \* service: the entry point last called, with its arguments
    result,                 \* service: how the promise of that call settled
    edges,                  \* service: the similarity edges computed during that call
    pc,                     \* service: the awaited call at which the handler of that call stands
    locals,                 \* service: the local variables of that handler
    pcCollab,               \* engine: position of getCollaborativeFilteringRecommendations
    pcContent,              \* engine: position of getContentBasedRecommendations
    collabLocals,           \* engine: similarUsers and watchedContentIds of the collaborative strategy
    contentLocals,          \* engine: userPreferences and watchedContentIds of the content-based strategy
    collaborativeRecs,      \* engine: first slot of the Promise.all result
    contentBasedRecs,       \* engine: second slot of the Promise.all result
    settled,                \* engine: the strategies in the order their promises settled
    slides,                 \* HeroSection: the slides state, as the content ids of the featured items
    activeIndex,            \* HeroSection: the activeIndex state, a number or NaN
    loading,                \* HeroSection: the loading state
    fetchState,             \* HeroSection: the fetchFeatured call: its promise, its continuation
    timer,                  \* HeroSection: the interval of the rotation effect and the slides.length its callback closed over
    mounted                 \* HeroSection: whether the component is mounted

mergeVars == <<allRecommendations, uniqueRecommendations, personalized, mergeLimit>>
storeVars == <<ratings, completed, updatedAt, rowOrder, genreRows, orderByAlias>>
svcVars == <<call, result, edges, pc, locals>>
engVars == <<pcCollab, pcContent, collabLocals, contentLocals,
             collaborativeRecs, contentBasedRecs, settled>>

heroVars == <<slides, activeIndex, loading, fetchState, timer, mounted>>

vars == <<allRecommendations, uniqueRecommendations, personalized, mergeLimit,
          ratings, completed, updatedAt, rowOrder, genreRows, orderByAlias,
          call, result, edges,
          pc, locals,
          pcCollab, pcContent, collabLocals, contentLocals,
          collaborativeRecs, contentBasedRecs, settled,
          slides, activeIndex, loading, fetchState, timer, mounted>>

\* Marker of a variable a specification does not use.
None == "none"

\* A list that is produced later in a request.
NotYet == [ready |-> FALSE, list |-> <<>>]
Ready(list) == [ready |-> TRUE, list |-> list]

(***************************************************************************)
(* Bounds                                                                  *)
(***************************************************************************)
MaxRecs == 3        \* longest candidate list handed to the merge
MaxScore == 2       \* candidate scores of the merge inputs range over 1..MaxScore
MaxLimit == 2       \* the caller's limit ranges over 1..MaxLimit

MergeIds == {1, 2}
MergeTypes == {"collaborative", "content-based", "popular"}

(***************************************************************************)
(* Generic helpers                                                         *)
(***************************************************************************)
Range(s) == {s[i] : i \in 1..Len(s)}

Min2(a, b) == IF a < b THEN a ELSE b

\* Array.prototype.slice(0, n)
Slice(s, n) == SubSeq(s, 1, Min2(n, Len(s)))

\* All sequences over S of length at most n.
SeqsUpTo(S, n) == UNION {[1..k -> S] : k \in 0..n}

\* All orderings of the entries of s (as sequences of the same length).
PermutationsOf(s) ==
    {[i \in 1..Len(s) |-> s[f[i]]] : f \in {g \in [1..Len(s) -> 1..Len(s)] :
                                            \A i, j \in 1..Len(s) : i # j => g[i] # g[j]}}

(***************************************************************************)
(* IEEE 754 binary64 arithmetic, the arithmetic of JavaScript numbers.     *)
(* A natural number of any size is a sequence of limbs, least significant  *)
(* first, with no zero limb at the top; zero is the empty sequence.        *)
(***************************************************************************)
LimbBits == 15
Radix == 2^LimbBits

RECURSIVE Trim(_)
Trim(a) ==
    IF a = <<>> THEN a
    ELSE IF a[Len(a)] = 0 THEN Trim(SubSeq(a, 1, Len(a) - 1)) ELSE a

\* The limbs of a natural below Radix^2.
BigOf(n) == Trim(<<n % Radix, n \div Radix>>)

Limb(a, i) == IF i <= Len(a) THEN a[i] ELSE 0

Zeros(n) == [i \in 1..n |-> 0]

RECURSIVE AddFrom(_, _, _, _)
AddFrom(a, b, i, carry) ==
    IF i > Len(a) /\ i > Len(b)
    THEN IF carry = 0 THEN <<>> ELSE <<carry>>
    ELSE LET t == Limb(a, i) + Limb(b, i) + carry
         IN  <<t % Radix>> \o AddFrom(a, b, i + 1, t \div Radix)

BigAdd(a, b) == AddFrom(a, b, 1, 0)

\* a - b for a >= b
RECURSIVE SubFrom(_, _, _, _)
SubFrom(a, b, i, borrow) ==
    IF i > Len(a) THEN <<>>
    ELSE LET t == Limb(a, i) - Limb(b, i) - borrow
         IN  IF t < 0 THEN <<t + Radix>> \o SubFrom(a, b, i + 1, 1)
             ELSE <<t>> \o SubFrom(a, b, i + 1, 0)

BigSub(a, b) == Trim(SubFrom(a, b, 1, 0))

RECURSIVE CmpFrom(_, _, _)
CmpFrom(a, b, i) ==
    IF i = 0 THEN 0
    ELSE IF a[i] # b[i] THEN (IF a[i] < b[i] THEN -1 ELSE 1)
    ELSE CmpFrom(a, b, i - 1)

\* -1, 0 or 1 as a < b, a = b or a > b
BigCmp(a, b) ==
    IF Len(a) # Len(b) THEN (IF Len(a) < Len(b) THEN -1 ELSE 1)
    ELSE CmpFrom(a, b, Len(a))

\* a * k for 0 < k < Radix
RECURSIVE MulSmallFrom(_, _, _, _)
MulSmallFrom(a, k, i, carry) ==
    IF i > Len(a) THEN IF carry = 0 THEN <<>> ELSE <<carry>>
    ELSE LET t == a[i] * k + carry
         IN  <<t % Radix>> \o MulSmallFrom(a, k, i + 1, t \div Radix)

BigMulSmall(a, k) == MulSmallFrom(a, k, 1, 0)

RECURSIVE MulFrom(_, _, _)
MulFrom(a, b, j) ==
    IF j > Len(b) THEN <<>>
    ELSE BigAdd(IF b[j] = 0 THEN <<>> ELSE Zeros(j - 1) \o BigMulSmall(a, b[j]),
                MulFrom(a, b, j + 1))

BigMul(a, b) == IF a = <<>> \/ b = <<>> THEN <<>> ELSE MulFrom(a, b, 1)

\* a * 2^k
ShiftLeft(a, k) ==
    IF a = <<>> THEN <<>>
    ELSE Zeros(k \div LimbBits) \o BigMulSmall(a, 2^(k % LimbBits))

\* floor(a / k) for 0 < k < Radix, from the top limb down
RECURSIVE DivSmallFrom(_, _, _, _)
DivSmallFrom(a, k, i, rem) ==
    IF i = 0 THEN <<>>
    ELSE LET cur == rem * Radix + a[i]
         IN  DivSmallFrom(a, k, i - 1, cur % k) \o <<cur \div k>>

\* floor(a / 2^k)
ShiftRight(a, k) ==
    IF k \div LimbBits >= Len(a) THEN <<>>
    ELSE LET high == SubSeq(a, (k \div LimbBits) + 1, Len(a))
         IN  Trim(DivSmallFrom(high, 2^(k % LimbBits), Len(high), 0))

\* The number of bits of a.
BitLen(a) ==
    IF a = <<>> THEN 0
    ELSE LimbBits * (Len(a) - 1)
           + (CHOOSE k \in 1..LimbBits : 2^(k - 1) <= a[Len(a)] /\ a[Len(a)] < 2^k)

\* The number of zero bits below the lowest set bit of a # 0.
TrailingZeros(a) ==
    LET z == CHOOSE i \in 1..Len(a) : a[i] # 0 /\ \A j \in 1..(i - 1) : a[j] = 0
    IN  LimbBits * (z - 1)
          + (CHOOSE t \in 0..(LimbBits - 1) : a[z] % 2^t = 0 /\ a[z] % 2^(t + 1) # 0)

\* The quotient digit: the estimate q lowered until t * q <= rem
RECURSIVE DigitFrom(_, _, _)
DigitFrom(rem, t, q) ==
    IF q = 0 THEN 0
    ELSE IF BigCmp(BigMulSmall(t, q), rem) <= 0 THEN q
    ELSE DigitFrom(rem, t, q - 1)

\* Long division by a divisor d whose top limb is Radix / 2 or more: the
\* quotient digits at limb positions i down to 0, q the digits above
\* position i.  A digit is estimated from the top limbs of rem and of d,
\* which overshoots it by 2 at most.
RECURSIVE DivModFrom(_, _, _, _)
DivModFrom(rem, d, i, q) ==
    IF i < 0 THEN [q |-> Trim(q), r |-> rem]
    ELSE LET t == Zeros(i) \o d
             top == Limb(rem, i + Len(d) + 1) * Radix + Limb(rem, i + Len(d))
             estimate == top \div d[Len(d)]
             digit == DigitFrom(rem, t, IF estimate < Radix THEN estimate ELSE Radix - 1)
         IN  IF digit = 0 THEN DivModFrom(rem, d, i - 1, <<0>> \o q)
             ELSE DivModFrom(BigSub(rem, BigMulSmall(t, digit)), d, i - 1,
                             <<digit>> \o q)

\* floor(n / d) and n mod d for d # 0, both scaled first so that the top
\* limb of the divisor is Radix / 2 or more
BigDivMod(n, d) ==
    LET s == LimbBits * Len(d) - BitLen(d)
        scaled == ShiftLeft(d, s)
        res == DivModFrom(ShiftLeft(n, s), scaled, Len(ShiftLeft(n, s)) - Len(scaled), <<>>)
    IN  [q |-> res.q, r |-> ShiftRight(res.r, s)]

\* floor(sqrt(n)) by Newton's iteration from a start x >= sqrt(n), for a
\* number n below 2^30
RECURSIVE SmallSqrtFrom(_, _)
SmallSqrtFrom(n, x) ==
    LET y == (x + n \div x) \div 2
    IN  IF y < x THEN SmallSqrtFrom(n, y) ELSE x

SmallSqrt(n) == IF n = 0 THEN 0 ELSE SmallSqrtFrom(n, Radix)

\* The same iteration on limbs
RECURSIVE SqrtFrom(_, _)
SqrtFrom(n, x) ==
    LET y == ShiftRight(BigAdd(x, BigDivMod(n, x).q), 1)
    IN  IF BigCmp(y, x) < 0 THEN SqrtFrom(n, y) ELSE x

\* floor(sqrt(n)): the iteration starts from the root of the top 30 bits of
\* n, rounded up
BigSqrt(n) ==
    IF n = <<>> THEN <<>>
    ELSE LET s == IF BitLen(n) <= 30 THEN 0 ELSE 2 * ((BitLen(n) - 29) \div 2)
             top == ShiftRight(n, s)
             start == SmallSqrt(Limb(top, 1) + Limb(top, 2) * Radix) + 1
         IN  SqrtFrom(n, ShiftLeft(BigOf(start), s \div 2))

(***************************************************************************)
(* A double is sign * m * 2^e with m odd (or zero), m below 2^53.  The     *)
(* values of the model stay far from the overflow and subnormal ranges.    *)
(***************************************************************************)
MantissaBits == 53

Zero == [sign |-> 1, m |-> <<>>, e |-> 0]

\* The same value with an odd mantissa.
Canonical(sign, m, e) ==
    IF m = <<>> THEN Zero
    ELSE LET tz == TrailingZeros(m)
         IN  [sign |-> sign, m |-> ShiftRight(m, tz), e |-> e + tz]

\* Round sign * (m + f) * 2^e to the nearest double, ties to even, where
\* 0 < f < 1 if sticky and f = 0 otherwise; a sticky m has 55 bits or more.
RoundToDouble(sign, m, e, sticky) ==
    LET L == BitLen(m)
    IN  IF L <= MantissaBits THEN Canonical(sign, m, e)
        ELSE LET sh == L - MantissaBits
                 q == ShiftRight(m, sh)
                 r == BigSub(m, ShiftLeft(q, sh))
                 c == BigCmp(r, ShiftLeft(<<1>>, sh - 1))
                 up == c > 0 \/ (c = 0 /\ (sticky \/ q[1] % 2 = 1))
             IN  Canonical(sign, IF up THEN BigAdd(q, <<1>>) ELSE q, e + sh)

\* The double of an integer below 2^30 in absolute value.
DoubleOf(n) ==
    IF n < 0 THEN Canonical(-1, BigOf(0 - n), 0) ELSE Canonical(1, BigOf(n), 0)

Negate(x) == IF x.m = <<>> THEN x ELSE [x EXCEPT !.sign = 0 - x.sign]

\* x + y as an exact sign, mantissa and exponent
ExactSum(x, y) ==
    IF x.m = <<>> THEN y
    ELSE IF y.m = <<>> THEN x
    ELSE LET e == IF x.e < y.e THEN x.e ELSE y.e
             a == ShiftLeft(x.m, x.e - e)
             b == ShiftLeft(y.m, y.e - e)
             c == BigCmp(a, b)
         IN  IF x.sign = y.sign THEN [sign |-> x.sign, m |-> BigAdd(a, b), e |-> e]
             ELSE IF c = 0 THEN Zero
             ELSE IF c > 0 THEN [sign |-> x.sign, m |-> BigSub(a, b), e |-> e]
             ELSE [sign |-> y.sign, m |-> BigSub(b, a), e |-> e]

\* x + y, x - y, x * y, x / y and Math.sqrt(x) of JavaScript
Plus(x, y) == LET s == ExactSum(x, y) IN RoundToDouble(s.sign, s.m, s.e, FALSE)

Minus(x, y) == Plus(x, Negate(y))

Times(x, y) ==
    IF x.m = <<>> \/ y.m = <<>> THEN Zero
    ELSE RoundToDouble(x.sign * y.sign, BigMul(x.m, y.m), x.e + y.e, FALSE)

\* y # 0
Over(x, y) ==
    IF x.m = <<>> THEN Zero
    ELSE LET k == MantissaBits + 2 + BitLen(y.m) - BitLen(x.m)
             d == BigDivMod(ShiftLeft(x.m, k), y.m)
         IN  RoundToDouble(x.sign * y.sign, d.q, x.e - y.e - k, d.r # <<>>)

\* x >= 0
SquareRoot(x) ==
    IF x.m = <<>> THEN Zero
    ELSE LET least == 2 * MantissaBits + 3 - BitLen(x.m)
             k == IF (x.e - least) % 2 = 0 THEN least ELSE least + 1
             n == ShiftLeft(x.m, k)
             s == BigSqrt(n)
         IN  RoundToDouble(1, s, (x.e - k) \div 2, BigMul(s, s) # n)

\* |x| < |y| for x and y other than zero: by the position of the top bit,
\* then by the mantissas at a common exponent
MagnitudeBelow(x, y) ==
    LET tx == BitLen(x.m) + x.e
        ty == BitLen(y.m) + y.e
        e  == IF x.e < y.e THEN x.e ELSE y.e
    IN  IF tx # ty THEN tx < ty
        ELSE BigCmp(ShiftLeft(x.m, x.e - e), ShiftLeft(y.m, y.e - e)) < 0

\* x < y
Less(x, y) ==
    IF x = y THEN FALSE
    ELSE IF x.m = <<>> THEN y.sign = 1
    ELSE IF y.m = <<>> THEN x.sign = -1
    ELSE IF x.sign # y.sign THEN x.sign = -1
    ELSE IF x.sign = 1 THEN MagnitudeBelow(x, y)
    ELSE MagnitudeBelow(y, x)

Magnitude(x) == [x EXCEPT !.sign = 1]


(***************************************************************************)
(* Array.prototype.sort((a, b) => b.score - a.score): a stable sort in     *)
(* descending score order; entries of equal score keep their input order.  *)
(* The scores are JavaScript numbers.                                      *)
(***************************************************************************)
InsertByScoreDesc(sorted, e) ==
    LET k == Cardinality({i \in 1..Len(sorted) : ~Less(sorted[i].score, e.score)})
    IN  SubSeq(sorted, 1, k) \o <<e>> \o SubSeq(sorted, k + 1, Len(sorted))

RECURSIVE SortByScoreDesc(_)
SortByScoreDesc(s) ==
    IF s = <<>> THEN <<>>
    ELSE InsertByScoreDesc(SortByScoreDesc(SubSeq(s, 1, Len(s) - 1)), s[Len(s)])

\* The same sort of entries whose scores are whole numbers, held as
\* integers; also the order of a database ORDER BY ... DESC over rows it
\* ranks by a whole key, rows of equal key in the order they are stored.
InsertByWholeScoreDesc(sorted, e) ==
    LET k == Cardinality({i \in 1..Len(sorted) : sorted[i].score >= e.score})
    IN  SubSeq(sorted, 1, k) \o <<e>> \o SubSeq(sorted, k + 1, Len(sorted))

RECURSIVE SortByWholeScoreDesc(_)
SortByWholeScoreDesc(s) ==
    IF s = <<>> THEN <<>>
    ELSE InsertByWholeScoreDesc(SortByWholeScoreDesc(SubSeq(s, 1, Len(s) - 1)), s[Len(s)])

(***************************************************************************)
(* deduplicateRecommendations: uniqueMap keeps, per content id, the first  *)
(* entry that no later entry beats with a strictly higher score;           *)
(* Object.values(uniqueMap) lists the entries in the order their ids were  *)
(* first inserted (a replaced entry keeps the key's position).             *)
(***************************************************************************)
DedupStepKeepLower(acc, rec) ==
    LET hit == {i \in 1..Len(acc) : acc[i].id = rec.id}
    IN  IF hit = {} THEN Append(acc, rec)
        ELSE LET i == CHOOSE j \in hit : TRUE
             IN  IF Less(rec.score, acc[i].score) THEN [acc EXCEPT ![i] = rec] ELSE acc

DedupStep(acc, rec) ==
    LET hit == {i \in 1..Len(acc) : acc[i].id = rec.id}
    IN  IF hit = {} THEN Append(acc, rec)
        ELSE LET i == CHOOSE j \in hit : TRUE
             IN  IF Less(acc[i].score, rec.score) THEN [acc EXCEPT ![i] = rec] ELSE acc

RECURSIVE deduplicateRecommendations(_)
deduplicateRecommendations(recs) ==
    IF recs = <<>> THEN <<>>
    ELSE DedupStep(deduplicateRecommendations(SubSeq(recs, 1, Len(recs) - 1)),
                   recs[Len(recs)])

\* getPersonalizedRecommendations, lines 88-95: dedup, sort, slice.
HybridMerge(recs, limit) ==
    Slice(SortByScoreDesc(deduplicateRecommendations(recs)), limit)

(***************************************************************************)
(* SpecMerge: the merge applied to every bounded candidate list.           *)
(***************************************************************************)
MergeScores == {DoubleOf(s) : s \in 1..MaxScore}

MergeCandidates ==
    [id : MergeIds, score : MergeScores, recommendationType : MergeTypes]

InitMerge ==
    /\ allRecommendations \in SeqsUpTo(MergeCandidates, MaxRecs)
    /\ uniqueRecommendations = NotYet
    /\ personalized = NotYet
    /\ mergeLimit = 0
    /\ ratings = None /\ completed = None /\ updatedAt = None /\ rowOrder = None
    /\ genreRows = None /\ orderByAlias = None
    /\ slides = None /\ activeIndex = None /\ loading = None
    /\ fetchState = None /\ timer = None /\ mounted = None
    /\ call = None /\ result = None /\ edges = None /\ pc = None /\ locals = None
    /\ pcCollab = None /\ pcContent = None /\ collabLocals = None /\ contentLocals = None
    /\ collaborativeRecs = None /\ contentBasedRecs = None /\ settled = None

\* line 90: const uniqueRecommendations = this.deduplicateRecommendations(allRecommendations)
Deduplicate ==
    /\ ~uniqueRecommendations.ready
    /\ uniqueRecommendations' = Ready(deduplicateRecommendations(allRecommendations))
    /\ UNCHANGED <<allRecommendations, personalized, mergeLimit, storeVars, heroVars, svcVars, engVars>>

\* lines 93-95: return uniqueRecommendations.sort(...).slice(0, limit);
\* sort orders the array uniqueRecommendations itself and returns it, slice
\* copies its first limit entries.
SortAndLimit ==
    /\ uniqueRecommendations.ready
    /\ ~personalized.ready
    /\ \E limit \in 1..MaxLimit :
          /\ mergeLimit' = limit
          /\ uniqueRecommendations' = Ready(SortByScoreDesc(uniqueRecommendations.list))
          /\ personalized' = Ready(Slice(uniqueRecommendations'.list, limit))
    /\ UNCHANGED <<allRecommendations, storeVars, heroVars, svcVars, engVars>>

NextMerge == Deduplicate \/ SortAndLimit

SpecMerge == InitMerge /\ [][NextMerge]_vars

(***************************************************************************)
(* Claims about the hybrid merge (SpecMerge)                               *)
(***************************************************************************)
\* The entries of the merge input that carry content id c.
EntriesOf(recs, c) == {recs[i] : i \in {j \in 1..Len(recs) : recs[j].id = c}}

MaxScoreOf(recs, c) ==
    CHOOSE m \in {e.score : e \in EntriesOf(recs, c)} :
        \A e \in EntriesOf(recs, c) : ~Less(m, e.score)

\* C5: deduplicateRecommendations returns exactly one entry per distinct
\* content id of its input, and that entry has the maximum score of the
\* input entries with that id and the recommendationType of an input entry
\* that had that maximum score.
C5_DedupKeepsMaxPerId ==
    uniqueRecommendations.ready =>
        /\ {e.id : e \in Range(uniqueRecommendations.list)}
              = {e.id : e \in Range(allRecommendations)}
        /\ \A i, j \in 1..Len(uniqueRecommendations.list) :
              uniqueRecommendations.list[i].id = uniqueRecommendations.list[j].id => i = j
        /\ \A e \in Range(uniqueRecommendations.list) :
              /\ e.score = MaxScoreOf(allRecommendations, e.id)
              /\ e \in EntriesOf(allRecommendations, e.id)

\* A later entry with a strictly higher score replaced an earlier entry of
\* the same content id, and a second content id is present.
C5_Witness ==
    /\ uniqueRecommendations.ready
    /\ Len(uniqueRecommendations.list) = 2
    /\ \E i, j \in 1..Len(allRecommendations) :
          /\ i < j
          /\ allRecommendations[i].id = allRecommendations[j].id
          /\ Less(allRecommendations[i].score, allRecommendations[j].score)
          /\ allRecommendations[i].recommendationType
                # allRecommendations[j].recommendationType
          /\ allRecommendations[j] \in Range(uniqueRecommendations.list)

\* C6: the merged, sorted and limited list is the same for every
\* permutation of the merge input, equal scores included.
C6_MergeOrderIndependent ==
    personalized.ready =>
        \A p \in PermutationsOf(allRecommendations) :
            HybridMerge(p, mergeLimit) = personalized.list

\* Source priority of the merge tie-break (highest first).
SourcePriority(t) ==
    CASE t = "collaborative" -> 5
      [] t = "content-based" -> 4
      [] t = "similar"       -> 3
      [] t = "discovery"     -> 2
      [] OTHER               -> 1

\* C7: when input entries of one content id tie on the (maximum) score, the
\* merge keeps the one whose source type is highest in the priority order,
\* whatever their positions in the input.
C7_TieKeepsHighestPriority ==
    uniqueRecommendations.ready =>
        \A e \in Range(uniqueRecommendations.list) :
            \A o \in EntriesOf(allRecommendations, e.id) :
                o.score = e.score =>
                    SourcePriority(e.recommendationType)
                        >= SourcePriority(o.recommendationType)

(***************************************************************************)
(* The stores read by recommendationService (services/                     *)
(* recommendationService.js, the object-literal service).                  *)
(*                                                                         *)
(* A rating is a whole number of stars and an averageRating a whole number *)
(* of tenths; the database compares and orders them.                       *)
(***************************************************************************)
Users == {"u1", "u2"}

\* Every user id of the model, in the order the tables return their rows.
AllUserSeq == <<"u1", "u2", "u3", "u4", "u5", "u6", "u7", "u8", "u9", "u10", "u11", "u12">>

\* The users of the rating table.
UserSeq == SelectSeq(AllUserSeq, LAMBDA u : u \in DOMAIN ratings)
Items == {1, 2, 3, 4}
Genres == {1, 2, 3}
MissingId == Cardinality(Items) + 1     \* a content id the catalog does not hold
RatingValues == {0, 1, 5}               \* 0: the user has no rating row for the item

\* The rows of db.genre when the catalog carries three more genres.
WideGenres == Genres \cup {4, 5, 6}

\* The catalog snapshot: db.content with its genres, directors and actors.
NarrowCatalog ==
    [c \in Items |->
        CASE c = 1 -> [genres |-> {1},    directors |-> {1}, actors |-> {1},
                       averageRating |-> 45, type |-> "movie"]
          [] c = 2 -> [genres |-> {2},    directors |-> {1}, actors |-> {2},
                       averageRating |-> 45, type |-> "movie"]
          [] c = 3 -> [genres |-> {1, 2}, directors |-> {2}, actors |-> {1, 2},
                       averageRating |-> 35, type |-> "show"]
          [] OTHER -> [genres |-> {3},    directors |-> {3}, actors |-> {3},
                       averageRating |-> 50, type |-> "movie"]]

\* The same catalog with content 4 in every genre outside the first two.
WideCatalog == [NarrowCatalog EXCEPT ![4].genres = WideGenres \ {1, 2}]

Catalog == IF genreRows = Genres THEN NarrowCatalog ELSE WideCatalog

\* The dependencies a call can find unavailable.
Deps == {"db", "userService", "contentService"}

\* A settled promise.
Resolved(list) == [status |-> "resolved", list |-> list]
Rejected == [status |-> "rejected", list |-> <<>>]

\* The elements of a finite set of naturals in ascending order.
RECURSIVE SetToSeq(_)
SetToSeq(S) ==
    IF S = {} THEN <<>>
    ELSE LET m == CHOOSE x \in S : \A y \in S : x <= y
         IN  <<m>> \o SetToSeq(S \ {m})

\* Content rows in the order the database returns them without ORDER BY.
ContentRows == rowOrder

Rated(u) == {c \in Items : ratings[u][c] # 0}

\* The content a user has a rating row or a 'completed' status row for.
Interacted(u) == Rated(u) \cup {c \in Items : <<u, c>> \in completed}

\* db.userRatings rows, grouped by user, each user's rows in content row order.
RatingRowsOf(u) ==
    LET cs == SelectSeq(ContentRows, LAMBDA c : c \in Rated(u))
    IN  [i \in 1..Len(cs) |-> [userId |-> u, contentId |-> cs[i], rating |-> ratings[u][cs[i]]]]

RECURSIVE RatingRowsFrom(_)
RatingRowsFrom(k) ==
    IF k > Len(UserSeq) THEN <<>> ELSE RatingRowsOf(UserSeq[k]) \o RatingRowsFrom(k + 1)

RatingRows == RatingRowsFrom(1)

\* userService.getUserContentIds(userId): the ids of the content the user
\* has interacted with (a rating row or a status row).
getUserContentIds(u) == Interacted(u)

\* UserList.findAll({where: {userId}, attributes: ['contentId']}) of the
\* class-based service: the content of the user's list rows.
watchedContentIds(u) == Interacted(u)

\* contentService.getContentByIds(ids): the catalog items of the given ids,
\* in the order of the ids; ids the catalog does not hold are skipped.
getContentByIds(ids) == SelectSeq(ids, LAMBDA c : c \in Items)

\* fullContent.map(content => ({...content, recommendationType}))
Tagged(ids, type) == [i \in 1..Len(ids) |-> [id |-> ids[i], recommendationType |-> type]]

\* The ids of a scored list, in list order.
IdsOf(scored) == [i \in 1..Len(scored) |-> scored[i].contentId]

(***************************************************************************)
(* getPopularRecommendations(options), lines 262-296.                      *)
(*                                                                         *)
(* The query selects the count of 'completed' status rows inside the       *)
(* window as "popularityScore" (Sequelize quotes the alias) and orders by  *)
(* db.sequelize.literal('popularityScore'), which is sent as written.      *)
(* Whether the statement runs is the database's decision.  PostgreSQL, the *)
(* dialect of the configuration, folds the unquoted identifier to          *)
(* popularityscore, which names neither the alias nor a column, and        *)
(* rejects the statement; a database that matches the two answers it.  The *)
(* store variable orderByAlias holds which of the two the database does.   *)
(* '1 all' is no interval for either.  When findAll rejects, the catch of  *)
(* line 292 logs the error and returns [].                                 *)
(***************************************************************************)
\* The timeframes GET /popular accepts (validTimeframes).
Timeframes == {"week", "month", "year", "all"}

\* The timeframe of a call that passes none (line 263).
DefaultTimeframe == "month"

\* NOW() - INTERVAL '1 <unit>': the units the interval input knows.
IntervalUnits == {"week", "month", "year"}

\* The length of a trailing window in days.
IntervalDays(unit) ==
    CASE unit = "week" -> 7
      [] unit = "month" -> 30
      [] OTHER -> 365

\* line 274-279, the correlated subquery: the 'completed' status rows of the
\* content with updated_at > NOW() - INTERVAL '1 <timeframe>'.
popularityScore(c, timeframe) ==
    Cardinality({u \in Users : /\ <<u, c>> \in completed
                               /\ updatedAt[<<u, c>>] < IntervalDays(timeframe)})

\* line 267-284: the content rows outside excludeIds, ORDER BY
\* popularityScore DESC, LIMIT limit; rows of equal score come in the order
\* the database reads them.
PopularRows(excludeIds, timeframe, limit) ==
    LET rows == SelectSeq(ContentRows, LAMBDA c : c \notin excludeIds)
    IN  IdsOf(Slice(SortByWholeScoreDesc([i \in 1..Len(rows) |->
                                            [contentId |-> rows[i],
                                             score |-> popularityScore(rows[i], timeframe)]]),
                    limit))

\* line 267-284: whether db.content.findAll answers the query.
PopularQueryAnswers(options, down) ==
    /\ "db" \notin down
    /\ options.timeframe \in IntervalUnits
    /\ orderByAlias

getPopularRecommendations(options, down) ==
    IF PopularQueryAnswers(options, down)
    THEN Resolved(Tagged(PopularRows(options.excludeIds, options.timeframe, options.limit),
                         "popular"))
    ELSE Resolved(<<>>)                                   \* line 292-295

(***************************************************************************)
(* Rating maps.  A JavaScript object keyed by content id is the sequence   *)
(* of its <<content id, rating>> entries in insertion order, the order     *)
(* Object.keys lists them in.                                              *)
(***************************************************************************)
Keys(userRatings) == [i \in 1..Len(userRatings) |-> userRatings[i][1]]

Has(userRatings, id) == \E i \in 1..Len(userRatings) : userRatings[i][1] = id

Get(userRatings, id) ==
    userRatings[CHOOSE i \in 1..Len(userRatings) : userRatings[i][1] = id][2]

\* Object.keys(userRatings1).filter(id => userRatings2[id] !== undefined)
commonItems(userRatings1, userRatings2) ==
    SelectSeq(Keys(userRatings1), LAMBDA id : Has(userRatings2, id))

\* The ratings of a map over a list of its keys.
RatingsOver(userRatings, ids) == [i \in 1..Len(ids) |-> Get(userRatings, ids[i])]

\* rows.forEach(rating => map[rating.contentId] = rating.rating); a user has
\* one row per content.
RatingMapOf(rows) == [i \in 1..Len(rows) |-> <<rows[i].contentId, rows[i].rating>>]

\* The user ids of the rows in the order of their first row: the key order
\* of an object the rows are grouped into by user id.
RECURSIVE GroupedUsersFrom(_, _)
GroupedUsersFrom(rows, k) ==
    IF k = 0 THEN <<>>
    ELSE LET before == GroupedUsersFrom(rows, k - 1)
         IN  IF \E i \in 1..Len(before) : before[i] = rows[k].userId THEN before
             ELSE Append(before, rows[k].userId)

GroupedUsers(rows) == GroupedUsersFrom(rows, Len(rows))

RowsOfUser(rows, p) == SelectSeq(rows, LAMBDA r : r.userId = p)

\* userRatingsMap[userId] of the rows grouped by user
RatingMapOfUser(rows, p) == RatingMapOf(RowsOfUser(rows, p))

(***************************************************************************)
(* calculateSimilarity (utils/mathUtils.js): the cosine of two vectors of  *)
(* ratings of one length.  The ratings are whole numbers, so the dot       *)
(* product and the sums of squares are whole numbers that a JavaScript     *)
(* number holds exactly; the roots, their product and the quotient are     *)
(* rounded.                                                                *)
(***************************************************************************)
RECURSIVE SumOfProducts(_, _, _)
SumOfProducts(vector1, vector2, i) ==
    IF i = 0 THEN 0
    ELSE SumOfProducts(vector1, vector2, i - 1) + vector1[i] * vector2[i]

\* The quotient of calculateSimilarity; a vector of zeros has no direction
\* and gives 0.
CosineOf(dotProduct, magnitude1, magnitude2) ==
    IF magnitude1 = Zero \/ magnitude2 = Zero THEN Zero
    ELSE Over(DoubleOf(dotProduct), Times(magnitude1, magnitude2))

calculateSimilarity(vector1, vector2) ==
    CosineOf(SumOfProducts(vector1, vector2, Len(vector1)),
             SquareRoot(DoubleOf(SumOfProducts(vector1, vector1, Len(vector1)))),
             SquareRoot(DoubleOf(SumOfProducts(vector2, vector2, Len(vector1)))))

(***************************************************************************)
(* _findSimilarUsers(userId, userRatings), lines 358-417                   *)
(***************************************************************************)
MinCommonItems == 3
MaxSimilarUsers == 10

\* line 404: the number 0.5
SimilarityThreshold == [sign |-> 1, m |-> <<1>>, e |-> -1]

\* line 368: the rating rows of the other users on the content the user
\* has rated.
OtherUserRatings(u, userRatings) ==
    SelectSeq(RatingRows,
              LAMBDA r : /\ r.userId # u
                         /\ r.contentId \in {userRatings[i].contentId : i \in 1..Len(userRatings)})

\* line 388-390: the content both users rated, in the order of the other
\* user's rows.
commonContentIds(userRatingMap, ratingsOfOther) == commonItems(ratingsOfOther, userRatingMap)

\* line 398-402: the similarity of the two rating vectors over the common
\* content.
SimilarityOver(userRatingMap, ratingsOfOther) ==
    LET common == commonContentIds(userRatingMap, ratingsOfOther)
    IN  calculateSimilarity(RatingsOver(userRatingMap, common),
                            RatingsOver(ratingsOfOther, common))

\* line 392: commonContentIds.length < 3 skips the other user.
ComparesPeer(userRatingMap, ratingsOfOther) ==
    Len(commonContentIds(userRatingMap, ratingsOfOther)) >= MinCommonItems

\* The loop of lines 386-410, the sort and the slice, on the rows the two
\* reads returned.
findSimilarUsers(userRatings, otherUserRatings) ==
    LET userRatingMap == RatingMapOf(userRatings)
        compared == SelectSeq(GroupedUsers(otherUserRatings),
                              LAMBDA p : ComparesPeer(userRatingMap,
                                                      RatingMapOfUser(otherUserRatings, p)))
        scored == [i \in 1..Len(compared) |->
                      [userId |-> compared[i],
                       score |-> SimilarityOver(userRatingMap,
                                                RatingMapOfUser(otherUserRatings,
                                                                compared[i]))]]
        similarityScores == SelectSeq(scored, LAMBDA e : Less(SimilarityThreshold, e.score))
    IN  Slice(SortByScoreDesc(similarityScores), MaxSimilarUsers)

\* _findSimilarUsers on the store as it stands.
ServiceFindSimilarUsers(u) ==
    findSimilarUsers(RatingRowsOf(u), OtherUserRatings(u, RatingRowsOf(u)))

(***************************************************************************)
(* _getContentFromSimilarUsers(userId, similarUsers, excludeIds),          *)
(* lines 422-462                                                           *)
(***************************************************************************)
LikedRating == 4
FullRating == 5

\* line 433: the rating rows of the similar users on content outside
\* allExcludeIds, rated 4.0 or higher.
SimilarUsersRatings(similarUsers, allExcludeIds) ==
    SelectSeq(RatingRows,
              LAMBDA r : /\ r.userId \in {e.userId : e \in Range(similarUsers)}
                         /\ r.contentId \notin allExcludeIds
                         /\ r.rating >= LikedRating)

\* line 444: similarUser.similarity * (rating.rating / 5.0)
RowScore(similarUsers, r) ==
    LET e == CHOOSE x \in Range(similarUsers) : x.userId = r.userId
    IN  Times(e.score, Over(DoubleOf(r.rating), DoubleOf(FullRating)))

\* line 446-453: a new entry takes the score, an entry of the map adds it
AccumulateScore(acc, contentId, score) ==
    LET hit == {i \in 1..Len(acc) : acc[i].contentId = contentId}
    IN  IF hit = {}
        THEN Append(acc, [contentId |-> contentId, score |-> score])
        ELSE LET i == CHOOSE j \in hit : TRUE
             IN  [acc EXCEPT ![i].score = Plus(@, score)]

RECURSIVE AccumulateRows(_, _)
AccumulateRows(rows, similarUsers) ==
    IF rows = <<>> THEN <<>>
    ELSE AccumulateScore(AccumulateRows(SubSeq(rows, 1, Len(rows) - 1), similarUsers),
                         rows[Len(rows)].contentId,
                         RowScore(similarUsers, rows[Len(rows)]))

\* The recommendations of lines 442-461 from the rows the read returned.
getContentFromSimilarUsers(similarUsers, similarUsersRatings) ==
    AccumulateRows(similarUsersRatings, similarUsers)

(***************************************************************************)
(* getCollaborativeRecommendations(userId, options), lines 21-72           *)
(***************************************************************************)
ColdStartRatings == 3

ColdStartBelowTwo(userRatings) == Len(userRatings) < ColdStartRatings - 1

\* line 31: userRatings.length < 3
ColdStart(userRatings) == Len(userRatings) < ColdStartRatings

\* lines 48-52: the entries of recommendations are {contentId, score};
\* item.content is undefined, so the callback of filter throws on the first
\* entry it is given.
GenreFilterThrows(recommendations, genres) == genres # {} /\ recommendations # <<>>

(***************************************************************************)
(* getContentBasedRecommendations(userId, options), lines 80-158, and      *)
(* _scoreContentByAttributes, lines 468-512.  The scores are sums of       *)
(* products of whole numbers, which a JavaScript number holds exactly.     *)
(***************************************************************************)
GenreWeight == 8
DirectorWeight == 15
ActorWeight == 6

\* line 85: the user's rating rows with rating >= 4.0, with their content
userFavorites(u) == SelectSeq(RatingRowsOf(u), LAMBDA r : r.rating >= LikedRating)

\* The content of the favourite rows.
FavoriteItems(favoriteRows) == {favoriteRows[i].contentId : i \in 1..Len(favoriteRows)}

RECURSIVE SumOver(_, _)
SumOver(S, f) ==
    IF S = {} THEN 0
    ELSE LET x == CHOOSE y \in S : TRUE IN f[x] + SumOver(S \ {x}, f)

\* favoriteGenres / favoriteDirectors / favoriteActors (lines 109-126): per
\* attribute id the number of favourite items carrying it.
FavoriteCount(favorites, class, a) == Cardinality({c \in favorites : a \in Catalog[c][class]})

\* One attribute class of one content item, each favourite attribute
\* counted once however many favourites carry it.
CappedClassScoreOf(favorites, attributes, class) ==
    Cardinality({a \in attributes : FavoriteCount(favorites, class, a) > 0})

\* line 487-505, one attribute class of one content item: the sum of the
\* favourite counts of its attributes.
ClassScoreOf(favorites, attributes, class) ==
    SumOver(attributes, [a \in attributes |-> FavoriteCount(favorites, class, a)])

\* The score line 483-511 gives a content item with the given attributes.
AttributeScoreOf(favorites, content) ==
      GenreWeight * ClassScoreOf(favorites, content.genres, "genres")
    + DirectorWeight * ClassScoreOf(favorites, content.directors, "directors")
    + ActorWeight * ClassScoreOf(favorites, content.actors, "actors")

\* line 470: the first limit content rows outside excludeIds
PotentialContent(excludeIds, limit) ==
    Slice(SelectSeq(ContentRows, LAMBDA c : c \notin excludeIds), limit)

\* _scoreContentByAttributes(..., excludeIds, limit): the query takes
\* limit * 2 rows, each is given its score.
scoreContentByAttributes(favorites, excludeIds, limit) ==
    LET potentialContent == PotentialContent(excludeIds, limit * 2)
    IN  [i \in 1..Len(potentialContent) |->
            [contentId |-> potentialContent[i],
             score |-> AttributeScoreOf(favorites, Catalog[potentialContent[i]])]]

(***************************************************************************)
(* getSimilarContentRecommendations(contentId, options), lines 166-256     *)
(***************************************************************************)
NoUser == "null"

\* Math.min and Math.max of two numbers
Smaller(x, y) == IF Less(y, x) THEN y ELSE x
Larger(x, y) == IF Less(x, y) THEN y ELSE x

\* line 230: Math.min((matchedActors / 3) * 20, 20)
ActorScore(matchedActors) ==
    Smaller(Times(Over(DoubleOf(matchedActors), DoubleOf(3)), DoubleOf(20)), DoubleOf(20))

\* line 211-235: the score of one candidate against the seed; score starts
\* at 0 and the three terms are added one after the other.
SimilarScoreOf(content, similar) ==
    LET genreIds == content.genres
        matchedGenres == Cardinality(similar.genres \cap genreIds)
        matchedDirectors == Cardinality(similar.directors \cap content.directors)
        matchedActors == Cardinality(similar.actors \cap content.actors)
        genreTerm == Times(Over(DoubleOf(matchedGenres), DoubleOf(Cardinality(genreIds))),
                           DoubleOf(50))
        directorTerm == IF matchedDirectors > 0 THEN DoubleOf(30) ELSE Zero
    IN  Plus(Plus(Plus(Zero, genreTerm), directorTerm), ActorScore(matchedActors))

\* line 194-208: the first limit * 3 content rows outside excludeIds that
\* have a genre of the seed.
SimilarContent(content, excludeIds, limit) ==
    Slice(SelectSeq(ContentRows,
                    LAMBDA c : /\ c \notin excludeIds
                               /\ Catalog[c].genres \cap content.genres # {}),
          limit * 3)

\* line 211-236: similarContent.map(similar => ({contentId, score}))
ScoredContent(content, similarContent) ==
    [i \in 1..Len(similarContent) |->
        [contentId |-> similarContent[i],
         score |-> SimilarScoreOf(content, Catalog[similarContent[i]])]]

(***************************************************************************)
(* getBecauseYouWatchedRecommendations(userId, contentId, limit) of the     *)
(* class-based service (lines 223-268) and its calculateContentSimilarity. *)
(* The method has no try/catch: a failed store read rejects its promise.   *)
(***************************************************************************)
\* line 265: the number 0.5
ContentSimilarityThreshold == [sign |-> 1, m |-> <<1>>, e |-> -1]

\* commonGenres.length / Math.max(Math.sqrt(genres1.length * genres2.length), 1)
calculateContentSimilarity(content1, content2) ==
    LET commonGenres == content1.genres \cap content2.genres
    IN  Over(DoubleOf(Cardinality(commonGenres)),
             Larger(SquareRoot(DoubleOf(Cardinality(content1.genres)
                                          * Cardinality(content2.genres))),
                    DoubleOf(1)))

\* line 240-249: the first limit * 2 content rows of the seed's type outside
\* the watched content and the seed.
SameTypeContent(content, excluded, limit) ==
    Slice(SelectSeq(ContentRows,
                    LAMBDA c : c \notin excluded /\ Catalog[c].type = content.type),
          limit * 2)

\* line 252-267: score, filter, sort and slice
BecauseYouWatchedRows(content, similarContent, limit) ==
    LET scored == [i \in 1..Len(similarContent) |->
                      [contentId |-> similarContent[i],
                       score |-> calculateContentSimilarity(content,
                                                            Catalog[similarContent[i]])]]
        kept == SelectSeq(scored, LAMBDA rec : Less(ContentSimilarityThreshold, rec.score))
    IN  Slice(SortByScoreDesc(kept), limit)

(***************************************************************************)
(* getDiscoveryRecommendations(userId, options), _getUserPreferredGenres   *)
(* and _getHighlyRatedUnpopularContent                                     *)
(***************************************************************************)
TopGenres == 5
HighAverageRating == 40     \* average_rating >= 4.0, in tenths

\* One {genre, weight} per genre of each rated item, in row order.
RECURSIVE GenreWeightsFrom(_, _)
GenreWeightsFrom(rows, k) ==
    IF k > Len(rows) THEN <<>>
    ELSE LET gs == SetToSeq(Catalog[rows[k].contentId].genres)
         IN  [i \in 1..Len(gs) |->
                 [contentId |-> gs[i],
                  score |-> IF rows[k].rating >= 4 THEN 2 ELSE 1]]
             \o GenreWeightsFrom(rows, k + 1)

AddCount(acc, r) ==
    LET hit == {i \in 1..Len(acc) : acc[i].contentId = r.contentId}
    IN  IF hit = {} THEN Append(acc, r)
        ELSE LET i == CHOOSE j \in hit : TRUE
             IN  [acc EXCEPT ![i].score = @ + r.score]

RECURSIVE CountAll(_)
CountAll(rows) ==
    IF rows = <<>> THEN <<>>
    ELSE AddCount(CountAll(SubSeq(rows, 1, Len(rows) - 1)), rows[Len(rows)])

\* The genre ids by descending weighted count, all of them.
AllUserGenres(userRatings) ==
    IdsOf(SortByWholeScoreDesc(CountAll(GenreWeightsFrom(userRatings, 1))))

\* _getUserPreferredGenres on the rows its read returned: the genre ids by
\* descending weighted count, top 5.
getUserPreferredGenres(userRatings) ==
    IdsOf(Slice(SortByWholeScoreDesc(CountAll(GenreWeightsFrom(userRatings, 1))),
                TopGenres))

\* line 564-567: the number of user_content_status rows of the content.
popularity(c) == Cardinality({u \in Users : <<u, c>> \in completed})

\* An order on average_rating alone.
RatingOrderKey(c) == Catalog[c].averageRating * (Cardinality(Users) + 1)

\* line 572-575: order [['average_rating', 'DESC'], [popularity, 'ASC']] as one
\* descending key; popularity is at most the number of users.
UnpopularOrderKey(c) ==
    Catalog[c].averageRating * (Cardinality(Users) + 1) - popularity(c)

\* line 556-577 of _getHighlyRatedUnpopularContent: ORDER BY average_rating
\* DESC, popularity ASC, LIMIT limit.
HighlyRatedUnpopularContent(userContentIds, limit) ==
    LET rows == SelectSeq(ContentRows,
                          LAMBDA c : /\ c \notin userContentIds
                                     /\ Catalog[c].averageRating >= HighAverageRating)
        keyed == [i \in 1..Len(rows) |->
                     [contentId |-> rows[i], score |-> UnpopularOrderKey(rows[i])]]
    IN  IdsOf(Slice(SortByWholeScoreDesc(keyed), limit))

\* The discovery query without its condition on the genres.
AnyGenreDiscoveryContent(userContentIds, discoveryGenres, limit) ==
    LET rows == SelectSeq(ContentRows,
                          LAMBDA c : /\ c \notin userContentIds
                                     /\ Catalog[c].averageRating >= HighAverageRating)
        keyed == [i \in 1..Len(rows) |->
                     [contentId |-> rows[i], score |-> Catalog[rows[i]].averageRating]]
    IN  IdsOf(Slice(SortByWholeScoreDesc(keyed), limit))

\* line 329-342: the content outside userContentIds rated 4.0 or higher on
\* average with a genre among discoveryGenres, ORDER BY average_rating DESC,
\* LIMIT limit.
DiscoveryContent(userContentIds, discoveryGenres, limit) ==
    LET rows == SelectSeq(ContentRows,
                          LAMBDA c : /\ c \notin userContentIds
                                     /\ Catalog[c].averageRating >= HighAverageRating
                                     /\ Catalog[c].genres \cap discoveryGenres # {})
        keyed == [i \in 1..Len(rows) |->
                     [contentId |-> rows[i], score |-> Catalog[rows[i]].averageRating]]
    IN  IdsOf(Slice(SortByWholeScoreDesc(keyed), limit))

\* line 308-324: the branch getDiscoveryRecommendations takes given the
\* user's preferred genres and the genre rows.
DiscoveryPath(userGenres, allGenres) ==
    IF userGenres = <<>> THEN "getPopularRecommendations"
    ELSE IF allGenres \ Range(userGenres) = {} THEN "_getHighlyRatedUnpopularContent"
    ELSE "discoveryContent"

(***************************************************************************)
(* Spec: one request to a public entry point of recommendationService on   *)
(* every bounded store snapshot, with or without one dependency down.      *)
(* Requests are stateless and independent, so the model serves one at a    *)
(* time.  A handler is an async function: it runs from one awaited store   *)
(* call to the next, and each such stretch is one action.  The action that *)
(* accepts the call runs the handler through its first store call; pc      *)
(* names the call the handler awaits next, locals holds what it has read   *)
(* and computed.  Respond hands the settled promise over.                  *)
(***************************************************************************)
Targets == {"u1"}
ExcludeSets == {{}, {1}}
GenreFilters == {{}, {1}}
Outages == {{d} : d \in Deps}
Seeds == {1, 3, MissingId}

\* Store snapshots: the status rows and the physical row order.
\* statusRows gives, per 'completed' row, the days since it was updated.
StoreFixtures ==
    { [statusRows |-> (<<"u1", 4>> :> 3) @@ (<<"u2", 2>> :> 200),
       rowOrder |-> <<4, 3, 2, 1>>],
      [statusRows |-> (<<"u2", 2>> :> 500),
       rowOrder |-> <<1, 2, 3, 4>>] }

\* The rating rows of one user.
RatingRowSets == [Items -> RatingValues]

NoRatings == [c \in Items |-> 0]

\* Rating rows with values between the extremes: a target and a peer whose
\* cosine over three common items is one half, and a target whose common
\* ratings with two different peers give nearly the same cosine.
TargetRowSets ==
    RatingRowSets \cup {<<4, 1, 1, 0>>, <<1, 1, 1, 2>>}

\* The peer's rows: no rating, or ratings on enough items to share
\* MinCommonItems items with the target.
PeerRowSets ==
    {NoRatings, <<1, 1, 1, 5>>, <<1, 4, 1, 5>>, <<5, 5, 5, 5>>, <<5, 1, 0, 4>>}

NoCall == [op |-> "none", userId |-> NoUser, contentId |-> 0, limit |-> 0,
           excludeIds |-> {}, genres |-> {}, timeframe |-> DefaultTimeframe, down |-> {}]
NoResult == [status |-> "none", list |-> <<>>]
NoEdges == [computed |-> FALSE, list |-> <<>>]
NoLocals == [calls |-> <<>>, userRatings |-> <<>>, similarUsers |-> <<>>,
             allExcludeIds |-> {}, recommendations |-> <<>>, favorites |-> {},
             content |-> 0, scored |-> <<>>, results |-> <<>>,
             userGenres |-> <<>>, discoveryGenres |-> {}]
NoCollabLocals == [userRatings |-> <<>>, similarUsers |-> <<>>, watchedContentIds |-> {}]
NoContentLocals == [userPreferences |-> <<>>, watchedContentIds |-> {}]

\* The requests of the model: every combination of the options with all
\* dependencies up, and every single outage with limit 1 and no filter.
Requests(op, users, seeds, excludes, genreFilters) ==
    {[NoCall EXCEPT !.op = op, !.userId = u, !.contentId = s, !.limit = l,
                    !.excludeIds = x, !.genres = g] :
        u \in users, s \in seeds, l \in 1..MaxLimit, x \in excludes, g \in genreFilters}
    \cup
    {[NoCall EXCEPT !.op = op, !.userId = u, !.contentId = s, !.limit = 1, !.down = d] :
        u \in users \ {NoUser}, s \in seeds, d \in Outages}

OptionsOf(c) == [limit |-> c.limit, excludeIds |-> c.excludeIds,
                 genres |-> c.genres, userId |-> c.userId, timeframe |-> c.timeframe]

\* The variables of the other components as the service leaves them.
IdleElsewhere ==
    /\ slides = None /\ activeIndex = None /\ loading = None
    /\ fetchState = None /\ timer = None /\ mounted = None
    /\ allRecommendations = <<>> /\ uniqueRecommendations = NotYet
    /\ personalized = NotYet /\ mergeLimit = 0
    /\ pcCollab = "idle" /\ pcContent = "idle"
    /\ collabLocals = NoCollabLocals /\ contentLocals = NoContentLocals
    /\ collaborativeRecs = <<>> /\ contentBasedRecs = <<>> /\ settled = <<>>

NoRequest ==
    /\ call = NoCall
    /\ result = NoResult
    /\ edges = NoEdges
    /\ pc = "idle"
    /\ locals = NoLocals

Init ==
    /\ \E target \in TargetRowSets, peer \in PeerRowSets :
          ratings = [u \in Users |-> IF u = "u1" THEN target ELSE peer]
    /\ \E f \in StoreFixtures :
          /\ completed = DOMAIN f.statusRows
          /\ updatedAt = f.statusRows
          /\ rowOrder = f.rowOrder
    /\ genreRows = Genres
    /\ orderByAlias \in BOOLEAN
    /\ NoRequest
    /\ IdleElsewhere

\* The handler awaits the store call of the given line next.
Await(line, values) ==
    /\ pc' = line
    /\ locals' = values
    /\ result' = NoResult

\* The promise of the call settles.
Settle(outcome, values) ==
    /\ pc' = "settled"
    /\ locals' = values
    /\ result' = outcome

\* locals with one more awaited call on record
Called(name) == [locals EXCEPT !.calls = Append(@, name)]

(***************************************************************************)
(* getCollaborativeRecommendations, lines 21-72                            *)
(***************************************************************************)
\* lines 22-37: the call, the read of the user's rating rows (line 26) and
\* the cold-start test
CallCollaborative ==
    /\ call = NoCall
    /\ \E c \in Requests("getCollaborativeRecommendations", Targets, {0},
                         ExcludeSets, GenreFilters) :
        /\ call' = c
        /\ LET userRatings == RatingRowsOf(c.userId)
               read == [NoLocals EXCEPT !.calls = <<"db.userRatings.findAll">>,
                                        !.userRatings = userRatings]
           IN  IF "db" \in c.down
               THEN Settle(Resolved(<<>>), [NoLocals EXCEPT !.calls = <<"db.userRatings.findAll">>])
               ELSE IF ColdStart(userRatings) THEN Await("line 267", read)
               ELSE Await("line 368", read)
    /\ UNCHANGED <<edges, storeVars, heroVars, mergeVars, engVars>>

\* _findSimilarUsers from its read (line 368) to its return
CollaborativeFindSimilarUsers ==
    /\ pc = "line 368"
    /\ \E similarUsers \in {findSimilarUsers(locals.userRatings,
                                               OtherUserRatings(call.userId,
                                                                locals.userRatings))} :
           /\ edges' = [computed |-> TRUE, list |-> similarUsers]
           /\ Await("line 424", [Called("db.userRatings.findAll")
                                     EXCEPT !.similarUsers = similarUsers])
    /\ UNCHANGED <<call, storeVars, heroVars, mergeVars, engVars>>

\* _getContentFromSimilarUsers, lines 424-425
CollaborativeReadSeen ==
    /\ pc = "line 424"
    /\ IF "userService" \in call.down
       THEN Settle(Resolved(<<>>), Called("userService.getUserContentIds"))
       ELSE Await("line 433",
                  [Called("userService.getUserContentIds")
                      EXCEPT !.allExcludeIds = getUserContentIds(call.userId)
                                                  \cup call.excludeIds])
    /\ UNCHANGED <<call, edges, storeVars, heroVars, mergeVars, engVars>>

\* _getContentFromSimilarUsers from its second read (line 433) to its
\* return, then lines 46-61: the genre filter, the sort and the slice.
\* Without a genre filter filteredRecs is the array recommendations itself
\* (line 47) and sort orders it in place; filter gives a new array.
CollaborativeReadLiked ==
    /\ pc = "line 433"
    /\ \E recommendations \in
              {getContentFromSimilarUsers(locals.similarUsers,
                                          SimilarUsersRatings(locals.similarUsers,
                                                              locals.allExcludeIds))} :
         \E sorted \in {SortByScoreDesc(recommendations)} :
           LET read == [Called("db.userRatings.findAll")
                           EXCEPT !.recommendations = recommendations]
           IN  IF GenreFilterThrows(recommendations, call.genres)
               THEN Settle(Resolved(<<>>), read)
               ELSE Await("line 62",
                          [read EXCEPT !.recommendations =
                                           IF call.genres = {} THEN sorted ELSE @,
                                       !.scored = sorted,
                                       !.results = IdsOf(Slice(sorted, call.limit))])
    /\ UNCHANGED <<call, edges, storeVars, heroVars, mergeVars, engVars>>

\* lines 62-67
CollaborativeReadContent ==
    /\ pc = "line 62"
    /\ IF "contentService" \in call.down
       THEN Settle(Resolved(<<>>), Called("contentService.getContentByIds"))
       ELSE Settle(Resolved(Tagged(getContentByIds(locals.results), "collaborative")),
                   Called("contentService.getContentByIds"))
    /\ UNCHANGED <<call, edges, storeVars, heroVars, mergeVars, engVars>>

\* return this.getPopularRecommendations(options) of lines 33, 101 and 313:
\* the promise of the call settles as the promise of the fallback does.
FallBackToPopular ==
    /\ pc = "line 267"
    /\ Settle(getPopularRecommendations(OptionsOf(call), call.down),
              Called("getPopularRecommendations"))
    /\ UNCHANGED <<call, edges, storeVars, heroVars, mergeVars, engVars>>

(***************************************************************************)
(* getContentBasedRecommendations, lines 80-158                            *)
(***************************************************************************)
\* lines 81-126: the call, the read of the favourite rows (line 85) and the
\* attribute counts
CallContentBased ==
    /\ call = NoCall
    /\ \E c \in Requests("getContentBasedRecommendations", Targets, {0},
                         ExcludeSets, {{}}) :
        /\ call' = c
        /\ LET favoriteRows == userFavorites(c.userId)
               read == [NoLocals EXCEPT !.calls = <<"db.userRatings.findAll">>,
                                        !.favorites = FavoriteItems(favoriteRows)]
           IN  IF "db" \in c.down
               THEN Settle(Resolved(<<>>), [NoLocals EXCEPT !.calls = <<"db.userRatings.findAll">>])
               ELSE IF Len(favoriteRows) = 0 THEN Await("line 267", read)
               ELSE Await("line 129", read)
    /\ UNCHANGED <<edges, storeVars, heroVars, mergeVars, engVars>>

\* lines 129-130
ContentBasedReadSeen ==
    /\ pc = "line 129"
    /\ IF "userService" \in call.down
       THEN Settle(Resolved(<<>>), Called("userService.getUserContentIds"))
       ELSE Await("line 470",
                  [Called("userService.getUserContentIds")
                      EXCEPT !.allExcludeIds = getUserContentIds(call.userId)
                                                  \cup call.excludeIds])
    /\ UNCHANGED <<call, edges, storeVars, heroVars, mergeVars, engVars>>

\* _scoreContentByAttributes from its read (line 470) to its return, then
\* lines 141-147: the sort and the slice
ContentBasedScore ==
    /\ pc = "line 470"
    /\ LET contentScores == scoreContentByAttributes(locals.favorites,
                                                     locals.allExcludeIds, call.limit * 3)
       IN  Await("line 148",
                 [Called("db.content.findAll")
                     EXCEPT !.scored = SortByWholeScoreDesc(contentScores),
                            !.results = IdsOf(Slice(SortByWholeScoreDesc(contentScores),
                                                    call.limit))])
    /\ UNCHANGED <<call, edges, storeVars, heroVars, mergeVars, engVars>>

\* lines 148-153
ContentBasedReadContent ==
    /\ pc = "line 148"
    /\ IF "contentService" \in call.down
       THEN Settle(Resolved(<<>>), Called("contentService.getContentByIds"))
       ELSE Settle(Resolved(Tagged(getContentByIds(locals.results), "content-based")),
                   Called("contentService.getContentByIds"))
    /\ UNCHANGED <<call, edges, storeVars, heroVars, mergeVars, engVars>>

(***************************************************************************)
(* getSimilarContentRecommendations, lines 166-256                         *)
(***************************************************************************)
\* lines 167-188: the call and the read of the seed (line 171); a seed the
\* catalog does not hold throws at line 178, which the catch of line 251
\* turns into [].
CallSimilarContent ==
    /\ call = NoCall
    /\ \E c \in Requests("getSimilarContentRecommendations", Targets \cup {NoUser},
                         Seeds, {{}}, {{}}) :
        /\ call' = c
        /\ LET read == [NoLocals EXCEPT !.calls = <<"contentService.getContentById">>,
                                        !.content = c.contentId,
                                        !.allExcludeIds = {c.contentId}]
           IN  IF "contentService" \in c.down \/ c.contentId \notin Items
               THEN Settle(Resolved(<<>>),
                           [NoLocals EXCEPT !.calls = <<"contentService.getContentById">>])
               ELSE IF c.userId # NoUser THEN Await("line 189", read)
               ELSE Await("line 194", read)
    /\ UNCHANGED <<edges, storeVars, heroVars, mergeVars, engVars>>

\* lines 189-190
SimilarReadSeen ==
    /\ pc = "line 189"
    /\ IF "userService" \in call.down
       THEN Settle(Resolved(<<>>), Called("userService.getUserContentIds"))
       ELSE Await("line 194",
                  [Called("userService.getUserContentIds")
                      EXCEPT !.allExcludeIds = @ \cup getUserContentIds(call.userId)])
    /\ UNCHANGED <<call, edges, storeVars, heroVars, mergeVars, engVars>>

\* lines 194-244: the read of the candidates, the scores, the sort and the
\* slice
SimilarReadCandidates ==
    /\ pc = "line 194"
    /\ IF "db" \in call.down
       THEN Settle(Resolved(<<>>), Called("db.content.findAll"))
       ELSE \E scoredContent \in
                   {ScoredContent(Catalog[locals.content],
                                  SimilarContent(Catalog[locals.content],
                                                 locals.allExcludeIds, call.limit))} :
              \E sorted \in {SortByScoreDesc(scoredContent)} :
                Await("line 245",
                      [Called("db.content.findAll")
                          EXCEPT !.scored = sorted,
                                 !.results = IdsOf(Slice(sorted, call.limit))])
    /\ UNCHANGED <<call, edges, storeVars, heroVars, mergeVars, engVars>>

\* lines 245-250
SimilarReadContent ==
    /\ pc = "line 245"
    /\ Settle(Resolved(Tagged(getContentByIds(locals.results), "similar")),
              Called("contentService.getContentByIds"))
    /\ UNCHANGED <<call, edges, storeVars, heroVars, mergeVars, engVars>>

(***************************************************************************)
(* getPopularRecommendations, lines 262-296: one store call                *)
(***************************************************************************)
CallPopular ==
    /\ call = NoCall
    /\ \E r \in Requests("getPopularRecommendations", {"anyone"}, {0},
                         ExcludeSets, {{}}),
          timeframe \in Timeframes :
        /\ call' = [r EXCEPT !.timeframe = timeframe]
        /\ Settle(getPopularRecommendations(OptionsOf(call'), r.down),
                  [NoLocals EXCEPT !.calls = <<"db.content.findAll">>])
    /\ UNCHANGED <<edges, storeVars, heroVars, mergeVars, engVars>>

(***************************************************************************)
(* getDiscoveryRecommendations, lines 304-352                              *)
(***************************************************************************)
\* lines 305-314: the call and _getUserPreferredGenres with its read of the
\* user's rating rows (line 520)
CallDiscovery ==
    /\ call = NoCall
    /\ \E c \in Requests("getDiscoveryRecommendations", Targets, {0}, {{}}, {{}}) :
        /\ call' = c
        /\ LET userGenres == getUserPreferredGenres(RatingRowsOf(c.userId))
               read == [NoLocals EXCEPT !.calls = <<"db.userRatings.findAll">>,
                                        !.userGenres = userGenres]
           IN  IF "db" \in c.down
               THEN Settle(Resolved(<<>>), [NoLocals EXCEPT !.calls = <<"db.userRatings.findAll">>])
               ELSE IF Len(userGenres) = 0 THEN Await("line 267", read)
               ELSE Await("line 316", read)
    /\ UNCHANGED <<edges, storeVars, heroVars, mergeVars, engVars>>

\* lines 316-324: the read of the genre rows and the choice of the path
DiscoveryReadGenres ==
    /\ pc = "line 316"
    /\ LET allGenres == genreRows
           read == [Called("db.genre.findAll")
                       EXCEPT !.discoveryGenres = allGenres \ Range(locals.userGenres)]
       IN  IF DiscoveryPath(locals.userGenres, allGenres) = "_getHighlyRatedUnpopularContent"
           THEN Await("line 554",
                      [read EXCEPT !.calls = Append(@, "_getHighlyRatedUnpopularContent")])
           ELSE Await("line 327", read)
    /\ UNCHANGED <<call, edges, storeVars, heroVars, mergeVars, engVars>>

\* line 327
DiscoveryReadSeen ==
    /\ pc = "line 327"
    /\ IF "userService" \in call.down
       THEN Settle(Resolved(<<>>), Called("userService.getUserContentIds"))
       ELSE Await("line 329",
                  [Called("userService.getUserContentIds")
                      EXCEPT !.allExcludeIds = getUserContentIds(call.userId)])
    /\ UNCHANGED <<call, edges, storeVars, heroVars, mergeVars, engVars>>

\* lines 329-347
DiscoveryReadContent ==
    /\ pc = "line 329"
    /\ LET discoveryContent == DiscoveryContent(locals.allExcludeIds,
                                                locals.discoveryGenres, call.limit)
       IN  Settle(Resolved(Tagged(discoveryContent, "discovery")),
                  [Called("db.content.findAll") EXCEPT !.results = discoveryContent])
    /\ UNCHANGED <<call, edges, storeVars, heroVars, mergeVars, engVars>>

\* _getHighlyRatedUnpopularContent, line 554.  Line 323 returns the promise
\* of the helper without awaiting it, so a rejection of the helper is not
\* caught at line 348: the promise of the call rejects.
UnpopularReadSeen ==
    /\ pc = "line 554"
    /\ IF "userService" \in call.down
       THEN Settle(Rejected, Called("userService.getUserContentIds"))
       ELSE Await("line 556",
                  [Called("userService.getUserContentIds")
                      EXCEPT !.allExcludeIds = getUserContentIds(call.userId)])
    /\ UNCHANGED <<call, edges, storeVars, heroVars, mergeVars, engVars>>

\* _getHighlyRatedUnpopularContent, lines 556-582
UnpopularReadContent ==
    /\ pc = "line 556"
    /\ LET content == HighlyRatedUnpopularContent(locals.allExcludeIds, call.limit)
       IN  Settle(Resolved(Tagged(content, "discovery")),
                  [Called("db.content.findAll") EXCEPT !.results = content])
    /\ UNCHANGED <<call, edges, storeVars, heroVars, mergeVars, engVars>>

(***************************************************************************)
(* RecommendationService.getBecauseYouWatchedRecommendations (class-based),*)
(* lines 223-268 of recommendation-engine-implementation.js                *)
(***************************************************************************)
\* lines 225-231: the call and Content.findByPk; a seed the table does not
\* hold returns [].
CallBecauseYouWatched ==
    /\ call = NoCall
    /\ \E c \in Requests("getBecauseYouWatchedRecommendations", Targets, Seeds, {{}}, {{}}) :
        /\ call' = c
        /\ IF "db" \in c.down
           THEN Settle(Rejected, [NoLocals EXCEPT !.calls = <<"Content.findByPk">>])
           ELSE IF c.contentId \notin Items
           THEN Settle(Resolved(<<>>), [NoLocals EXCEPT !.calls = <<"Content.findByPk">>])
           ELSE Await("engine line 234",
                      [NoLocals EXCEPT !.calls = <<"Content.findByPk">>,
                                       !.content = c.contentId])
    /\ UNCHANGED <<edges, storeVars, heroVars, mergeVars, engVars>>

\* lines 234-239: the user's list rows
BecauseYouWatchedReadWatched ==
    /\ pc = "engine line 234"
    /\ Await("engine line 242",
             [Called("UserList.findAll")
                 EXCEPT !.allExcludeIds = watchedContentIds(call.userId) \cup {locals.content}])
    /\ UNCHANGED <<call, edges, storeVars, heroVars, mergeVars, engVars>>

\* lines 242-267: the candidates, their scores, the filter, the sort and
\* the slice
BecauseYouWatchedReadSimilar ==
    /\ pc = "engine line 242"
    /\ \E rows \in {BecauseYouWatchedRows(Catalog[locals.content],
                                           SameTypeContent(Catalog[locals.content],
                                                           locals.allExcludeIds,
                                                           call.limit),
                                           call.limit)} :
           Settle(Resolved(Tagged(IdsOf(rows), "similar")),
                  [Called("Content.findAll") EXCEPT !.scored = rows,
                                                    !.results = IdsOf(rows)])
    /\ UNCHANGED <<call, edges, storeVars, heroVars, mergeVars, engVars>>

\* The caller receives the settled promise; the service keeps no state.
Respond ==
    /\ call # NoCall
    /\ pc = "settled"
    /\ call' = NoCall
    /\ result' = NoResult
    /\ edges' = NoEdges
    /\ pc' = "idle"
    /\ locals' = NoLocals
    /\ UNCHANGED <<storeVars, heroVars, mergeVars, engVars>>

Collaborative ==
    \/ CallCollaborative
    \/ CollaborativeFindSimilarUsers
    \/ CollaborativeReadSeen
    \/ CollaborativeReadLiked
    \/ CollaborativeReadContent

ContentBased ==
    \/ CallContentBased
    \/ ContentBasedReadSeen
    \/ ContentBasedScore
    \/ ContentBasedReadContent

SimilarContentSteps ==
    \/ CallSimilarContent
    \/ SimilarReadSeen
    \/ SimilarReadCandidates
    \/ SimilarReadContent

Discovery ==
    \/ CallDiscovery
    \/ DiscoveryReadGenres
    \/ DiscoveryReadSeen
    \/ DiscoveryReadContent
    \/ UnpopularReadSeen
    \/ UnpopularReadContent

BecauseYouWatched ==
    \/ CallBecauseYouWatched
    \/ BecauseYouWatchedReadWatched
    \/ BecauseYouWatchedReadSimilar

Next ==
    \/ Collaborative
    \/ FallBackToPopular
    \/ ContentBased
    \/ SimilarContentSteps
    \/ CallPopular
    \/ Discovery
    \/ BecauseYouWatched
    \/ Respond

Spec == Init /\ [][Next]_vars

(***************************************************************************)
(* SpecConcurrent: the same requests while the rating table is written.    *)
(* The repository holds no code that writes user_ratings; the writer is    *)
(* the rest of the application.  A write falls between two awaited store   *)
(* calls of a handler or outside a request; each store call of a handler   *)
(* reads the table as it stands when the call is issued.                   *)
(***************************************************************************)
WrittenRowSets == {NoRatings, <<1, 1, 1, 0>>, <<1, 1, 1, 5>>, <<1, 4, 1, 5>>}

InitConcurrent ==
    /\ ratings = [u \in Users |-> <<1, 1, 1, 0>>]
    /\ completed = {}
    /\ updatedAt = << >>
    /\ rowOrder = <<1, 2, 3, 4>>
    /\ genreRows = Genres
    /\ orderByAlias \in BOOLEAN
    /\ NoRequest
    /\ IdleElsewhere

\* The rating rows of one user are replaced.
WriteStore ==
    /\ \E u \in Users, rows \in WrittenRowSets :
          /\ ratings[u] # rows
          /\ ratings' = [ratings EXCEPT ![u] = rows]
    /\ UNCHANGED <<completed, updatedAt, rowOrder, genreRows, orderByAlias,
                   svcVars, heroVars, mergeVars, engVars>>

NextConcurrent == Next \/ WriteStore

SpecConcurrent == InitConcurrent /\ [][NextConcurrent]_vars

(***************************************************************************)
(* Claims about the entry points of recommendationService (Spec).  They    *)
(* speak of a call whose promise has settled.                              *)
(***************************************************************************)
Settled == pc = "settled"

ReturnedIds == {e.id : e \in Range(result.list)}

\* The handler of the call has delegated to getPopularRecommendations.
Delegated == \E i \in 1..Len(locals.calls) : locals.calls[i] = "getPopularRecommendations"

\* C1: no strategy that takes a requesting user returns an item the user has
\* already interacted with, the popularity fallback included.
C1_NeverReturnsSeenContent ==
    (/\ Settled
     /\ call.op \in {"getCollaborativeRecommendations", "getContentBasedRecommendations",
                     "getDiscoveryRecommendations", "getSimilarContentRecommendations"}
     /\ call.userId # NoUser)
        => ReturnedIds \cap Interacted(call.userId) = {}

\* C2: for a user with 0, 1 or 2 ratings getCollaborativeRecommendations
\* settles exactly as getPopularRecommendations does for the same options on
\* the same data, and _findSimilarUsers is not run.
C2_ColdStartEqualsPopular ==
    (/\ Settled
     /\ call.op = "getCollaborativeRecommendations"
     /\ Cardinality(Rated(call.userId)) <= 2)
        => /\ result = getPopularRecommendations(OptionsOf(call), call.down)
           /\ ~edges.computed

\* A user with exactly two ratings was answered by the popularity fallback
\* with the items its query ranked.
C2_Witness ==
    /\ Settled
    /\ call.op = "getCollaborativeRecommendations"
    /\ Cardinality(Rated(call.userId)) = 2
    /\ call.down = {}
    /\ Delegated
    /\ result.list # <<>>

\* The dependency of the first store call an entry point makes.
FirstDependency(op) ==
    IF op = "getSimilarContentRecommendations" THEN "contentService" ELSE "db"

\* C3: a public entry point never rejects, and resolves to the empty list
\* when a store call it makes fails.
C3_FailureGivesEmptyList ==
    (/\ Settled
     /\ call.op \in {"getCollaborativeRecommendations", "getContentBasedRecommendations",
                     "getSimilarContentRecommendations", "getPopularRecommendations",
                     "getDiscoveryRecommendations"})
        => /\ result.status = "resolved"
           /\ FirstDependency(call.op) \in call.down => result.list = <<>>

\* C4: getSimilarContentRecommendations on a seed id the catalog does not
\* hold rejects (NotFound reaches the caller) instead of resolving to a list.
C4_MissingSeedRejects ==
    (/\ Settled
     /\ call.op = "getSimilarContentRecommendations"
     /\ call.contentId \notin Items
     /\ call.down = {})
        => result.status = "rejected"

\* The genres of the user's favourite items.
FavoriteGenresOf(u) == UNION {Catalog[c].genres : c \in FavoriteItems(userFavorites(u))}

\* C10: content-based scoring as the sole strategy never returns an item
\* that shares no genre with the user's favourites.
C10_ContentBasedNeedsGenreOverlap ==
    (Settled /\ call.op = "getContentBasedRecommendations") =>
        \A e \in Range(result.list) :
            e.recommendationType = "content-based"
                => Catalog[e.id].genres \cap FavoriteGenresOf(call.userId) # {}

\* The favourites of the content-attribute scorer as the design states them:
\* the items the user rated 4.0 or higher or marked completed.
QualifyingFavorites(u) ==
    {c \in Items : ratings[u][c] >= LikedRating \/ <<u, c>> \in completed}

\* C11: getContentBasedRecommendations delegates to getPopularRecommendations
\* if and only if the user has no favourite, a favourite being an item rated
\* 4.0 or higher or marked completed; a user whose only signal is a
\* completed, unrated item is scored by content attributes.
C11_PopularFallbackIffNoFavorite ==
    (Settled /\ call.op = "getContentBasedRecommendations" /\ call.down = {}) =>
        (Delegated <=> QualifyingFavorites(call.userId) = {})

\* C12: every item an item-similarity operation returns has the media type
\* of the seed, is not the seed, and is not an item the requesting user (when
\* there is one) has already seen.
C12_SimilarItemsSameTypeUnseen ==
    (/\ Settled
     /\ call.op \in {"getSimilarContentRecommendations",
                     "getBecauseYouWatchedRecommendations"}
     /\ call.contentId \in Items)
        => \A e \in Range(result.list) :
              /\ Catalog[e.id].type = Catalog[call.contentId].type
              /\ e.id # call.contentId
              /\ call.userId # NoUser => e.id \notin Interacted(call.userId)

\* The 'completed' status rows of a content item inside the trailing window;
\* the window 'all' holds every row.
CompletedWithin(c, timeframe) ==
    Cardinality({u \in Users :
                    /\ <<u, c>> \in completed
                    /\ timeframe = "all" \/ updatedAt[<<u, c>>] < IntervalDays(timeframe)})

\* C13: for each timeframe of week, month, year and all,
\* getPopularRecommendations returns the non-excluded items ranked by the
\* number of 'completed' rows inside the window, descending, up to limit;
\* for 'all' every row counts, and the list is non-empty when the catalog
\* has a non-excluded item.
C13_PopularRanksByCompletedInWindow ==
    (Settled /\ call.op = "getPopularRecommendations" /\ call.down = {}) =>
        LET list == result.list
            eligible == Items \ call.excludeIds
        IN  /\ Len(list) = Min2(call.limit, Cardinality(eligible))
            /\ ReturnedIds \subseteq eligible
            /\ \A i, j \in 1..Len(list) :
                  i < j => /\ list[i].id # list[j].id
                           /\ CompletedWithin(list[i].id, call.timeframe)
                                 >= CompletedWithin(list[j].id, call.timeframe)
            /\ \A c \in eligible \ ReturnedIds : \A e \in ReturnedIds :
                  CompletedWithin(e, call.timeframe) >= CompletedWithin(c, call.timeframe)

\* The user's top-5 preferred genres.
TopFiveOf(u) == Range(getUserPreferredGenres(RatingRowsOf(u)))

\* The ids of the returned list are in descending averageRating order.
RatingDescending(list) ==
    \A i, j \in 1..Len(list) :
        i < j => Catalog[list[i].id].averageRating >= Catalog[list[j].id].averageRating

\* Every returned item is unseen by the user, rated 4.0 or higher on average
\* and has a genre outside the user's top-5, and the items are in descending
\* rating order.
DiscoveryItemsOutsideTopGenres ==
    /\ \A e \in Range(result.list) :
          /\ e.id \notin Interacted(call.userId)
          /\ Catalog[e.id].averageRating >= HighAverageRating
          /\ ~(Catalog[e.id].genres \subseteq TopFiveOf(call.userId))
    /\ RatingDescending(result.list)

\* C14 as stated: when a catalog genre is outside the user's top-5 preferred
\* genres, every item getDiscoveryRecommendations returns is unseen by the
\* user, has averageRating >= 4.0 and has a genre outside the top-5, and the
\* items are in descending rating order.
C14_AsStated ==
    (/\ Settled
     /\ call.op = "getDiscoveryRecommendations"
     /\ call.down = {}
     /\ genreRows \ TopFiveOf(call.userId) # {})
        => DiscoveryItemsOutsideTopGenres

\* C14, amended: when the user has a preferred genre and a catalog genre is
\* outside the user's top-5 preferred genres, every item
\* getDiscoveryRecommendations returns is unseen by the user, has
\* averageRating >= 4.0 and has a genre outside the top-5, and the items are
\* in descending rating order.
C14_DiscoveryOutsideTopGenres ==
    (/\ Settled
     /\ call.op = "getDiscoveryRecommendations"
     /\ call.down = {}
     /\ TopFiveOf(call.userId) # {}
     /\ genreRows \ TopFiveOf(call.userId) # {})
        => DiscoveryItemsOutsideTopGenres

\* A user who rated items of all 6 catalog genres, so that the top-5 leaves
\* out a genre the user has rated, was returned an item of that genre.
C14_Witness ==
    /\ Settled
    /\ call.op = "getDiscoveryRecommendations"
    /\ call.down = {}
    /\ Cardinality(genreRows) > TopGenres
    /\ Cardinality(TopFiveOf(call.userId)) = TopGenres
    /\ UNION {Catalog[c].genres : c \in Rated(call.userId)} = genreRows
    /\ result.list # <<>>
    /\ \A e \in Range(result.list) :
          Catalog[e.id].genres \cap TopFiveOf(call.userId) = {}

\* C15: when every catalog genre is in the user's top-5,
\* getDiscoveryRecommendations returns only unseen items with
\* averageRating >= 4.0, in descending rating order and, among items of equal
\* rating, in ascending order of their number of status rows.
C15_ExhaustedGenresInversePopularity ==
    (/\ Settled
     /\ call.op = "getDiscoveryRecommendations"
     /\ call.down = {}
     /\ Genres \ TopFiveOf(call.userId) = {})
        => /\ result.status = "resolved"
           /\ \A e \in Range(result.list) :
                 /\ e.id \notin Interacted(call.userId)
                 /\ Catalog[e.id].averageRating >= HighAverageRating
                 /\ e.recommendationType = "discovery"
           /\ RatingDescending(result.list)
           /\ \A i, j \in 1..Len(result.list) :
                 (/\ i < j
                  /\ Catalog[result.list[i].id].averageRating
                        = Catalog[result.list[j].id].averageRating)
                     => popularity(result.list[i].id) <= popularity(result.list[j].id)

\* Two unseen items of equal rating were returned, the less popular first
\* although the database row order lists it last.
C15_Witness ==
    /\ Settled
    /\ call.op = "getDiscoveryRecommendations"
    /\ call.down = {}
    /\ Genres \ TopFiveOf(call.userId) = {}
    /\ Len(result.list) = 2
    /\ Catalog[result.list[1].id].averageRating = Catalog[result.list[2].id].averageRating
    /\ popularity(result.list[1].id) < popularity(result.list[2].id)
    /\ \E i, j \in 1..Len(rowOrder) :
          i < j /\ rowOrder[i] = result.list[2].id /\ rowOrder[j] = result.list[1].id

\* The score the scorer of the call gave to a returned item.
ScoreIn(e) == (CHOOSE r \in Range(locals.scored) : r.contentId = e.id).score

\* The first score is the higher one: a whole number of the attribute
\* scorer, a binary64 number of the similarity scorer.
Above(op, s, t) ==
    IF op = "getContentBasedRecommendations" THEN s > t ELSE Less(t, s)

\* C16: the ranked output of a scorer is in descending score order, and
\* candidates of equal score are in contentId order, so that the sequence
\* does not depend on the order in which the candidates were fetched.
C16_TiesOrderedByContentId ==
    (/\ Settled
     /\ call.op \in {"getSimilarContentRecommendations", "getContentBasedRecommendations"}
     /\ call.down = {})
        => \A i, j \in 1..Len(result.list) :
              (/\ i < j
               /\ result.list[i].recommendationType \in {"similar", "content-based"}
               /\ result.list[j].recommendationType \in {"similar", "content-based"})
                  => \/ Above(call.op, ScoreIn(result.list[i]), ScoreIn(result.list[j]))
                     \/ /\ ScoreIn(result.list[i]) = ScoreIn(result.list[j])
                        /\ result.list[i].id < result.list[j].id

\* The collaborative candidates of the call whose content has one of the
\* requested genres, highest score first.
CandidatesWithGenres(c) ==
    SelectSeq(SortByScoreDesc(locals.recommendations),
              LAMBDA r : Catalog[r.contentId].genres \cap c.genres # {})

\* C18: with a non-empty options.genres and a user of at least 3 ratings,
\* getCollaborativeRecommendations returns the highest-scored collaborative
\* candidates whose content has a requested genre, up to limit; the list is
\* non-empty whenever such a candidate exists.
C18_GenreFilterKeepsMatchingCandidates ==
    (/\ Settled
     /\ call.op = "getCollaborativeRecommendations"
     /\ call.down = {}
     /\ call.genres # {}
     /\ Cardinality(Rated(call.userId)) >= ColdStartRatings)
        => result = Resolved(Tagged(IdsOf(Slice(CandidatesWithGenres(call), call.limit)),
                                    "collaborative"))

(***************************************************************************)
(* The class-based RecommendationService                                   *)
(* (recommendation-engine-implementation.js).  Its UserList table holds    *)
(* one row per user and content with a nullable rating and a status; the   *)
(* model reads it from the same store: a row exists when the user has a    *)
(* rating or a 'completed' status for the content.                         *)
(***************************************************************************)
\* The partial sums of vector.reduce((sum, val) => sum + val, 0): the initial
\* value and the sum after each of the first i elements
RECURSIVE PartialSums(_, _)
PartialSums(vector, i) ==
    IF i = 0 THEN <<Zero>>
    ELSE LET before == PartialSums(vector, i - 1)
         IN  Append(before, Plus(before[i], vector[i]))

reduce(vector) == PartialSums(vector, Len(vector))[Len(vector) + 1]

\* One iteration of the loop of calculatePearsonCorrelation
AccumulateDeviations(sums, diff1, diff2) ==
    [numerator |-> Plus(sums.numerator, Times(diff1, diff2)),
     denom1    |-> Plus(sums.denom1, Times(diff1, diff1)),
     denom2    |-> Plus(sums.denom2, Times(diff2, diff2))]

\* numerator, denom1 and denom2 before the loop and after each of its first
\* i iterations
RECURSIVE Accumulated(_, _, _, _, _)
Accumulated(vector1, vector2, mean1, mean2, i) ==
    IF i = 0 THEN <<[numerator |-> Zero, denom1 |-> Zero, denom2 |-> Zero]>>
    ELSE LET before == Accumulated(vector1, vector2, mean1, mean2, i - 1)
         IN  Append(before,
                    AccumulateDeviations(before[i], Minus(vector1[i], mean1),
                                         Minus(vector2[i], mean2)))

\* The return of calculatePearsonCorrelation after its loop
CoefficientOfSums(sums) ==
    IF sums.denom1 = Zero \/ sums.denom2 = Zero THEN Zero
    ELSE Over(sums.numerator, SquareRoot(Times(sums.denom1, sums.denom2)))

\* The coefficient of two non-empty sequences of numbers of one length
CoefficientOfNumbers(vector1, vector2) ==
    CoefficientOfSums(Accumulated(vector1, vector2,
                                  Over(reduce(vector1), DoubleOf(Len(vector1))),
                                  Over(reduce(vector2), DoubleOf(Len(vector1))),
                                  Len(vector1))[Len(vector1) + 1])

\* The JavaScript numbers of ratings given in whole stars.
WholeNumbersOf(v) == [i \in 1..Len(v) |-> DoubleOf(v[i])]

\* calculatePearsonCorrelation(userRatings1, userRatings2), lines 344-382,
\* on two rating maps
calculatePearsonCorrelation(userRatings1, userRatings2) ==
    LET common == commonItems(userRatings1, userRatings2)
    IN  IF Len(common) = 0 THEN Zero
        ELSE CoefficientOfNumbers(WholeNumbersOf(RatingsOver(userRatings1, common)),
                                  WholeNumbersOf(RatingsOver(userRatings2, common)))

\* line 326: the number 0.3
PearsonThreshold == [sign |-> 1, m |-> <<13107, 26214, 19660, 153>>, e |-> -54]

\* findSimilarUsers(userId), lines 291-335, on the rows its two reads
\* returned: the other users in the order of their first row, those with a
\* coefficient above 0.3, sorted.
EngineSimilarities(userRatings, otherUsersRatings) ==
    LET userRatingsMap == RatingMapOf(userRatings)
        others == GroupedUsers(otherUsersRatings)
        scored == [i \in 1..Len(others) |->
                      [userId |-> others[i],
                       score |-> calculatePearsonCorrelation(
                                     userRatingsMap,
                                     RatingMapOfUser(otherUsersRatings, others[i]))]]
    IN  SortByScoreDesc(SelectSeq(scored, LAMBDA e : Less(PearsonThreshold, e.score)))

\* findSimilarUsers(userId) on the store as it stands.
EngineFindSimilarUsers(u) ==
    IF RatingRowsOf(u) = <<>> THEN <<>>
    ELSE EngineSimilarities(RatingRowsOf(u), OtherUserRatings(u, RatingRowsOf(u)))

\* line 487: the number 0.5
DefaultSimilarityWeight == [sign |-> 1, m |-> <<1>>, e |-> -1]

\* getSimilarityWeight(similarUsers, userId)
getSimilarityWeight(similarUsers, p) ==
    IF \E e \in Range(similarUsers) : e.userId = p
    THEN (CHOOSE e \in Range(similarUsers) : e.userId = p).score
    ELSE DefaultSimilarityWeight

\* getCollaborativeFilteringRecommendations, lines 121-145: the rows of the
\* similar users on unwatched content rated 4 or more, ORDER BY rating DESC,
\* LIMIT limit * 2, each scored rating * similarity weight.
EngineCollaborativeRows(similarUsers, watched, limit) ==
    LET rows == SelectSeq(RatingRows,
                          LAMBDA r : /\ r.userId \in {e.userId : e \in Range(similarUsers)}
                                     /\ r.contentId \notin watched
                                     /\ r.rating >= LikedRating)
        ordered == SortByWholeScoreDesc([i \in 1..Len(rows) |->
                                            [row |-> rows[i], score |-> rows[i].rating]])
        fetched == Slice(ordered, limit * 2)
    IN  [i \in 1..Len(fetched) |->
            [id |-> fetched[i].row.contentId,
             score |-> Times(DoubleOf(fetched[i].row.rating),
                             getSimilarityWeight(similarUsers, fetched[i].row.userId)),
             recommendationType |-> "collaborative"]]

\* line 390-398: the UserList rows of the user with a rating or the status
\* 'completed'; rating 0 stands for null.
UserContentOf(u) ==
    LET cs == SelectSeq(ContentRows, LAMBDA c : c \in Interacted(u))
    IN  [i \in 1..Len(cs) |->
            [contentId |-> cs[i], rating |-> ratings[u][cs[i]],
             completed |-> <<u, cs[i]>> \in completed]]

\* line 412: the number 3.5
DefaultRating == [sign |-> 1, m |-> <<7>>, e |-> -1]

\* line 413: the number 0.8
UncompletedWeight == [sign |-> 1, m |-> <<19661, 6553, 13107, 102>>, e |-> -52]

\* lines 412-419: rating * weight of one row
PreferenceScore(item) ==
    Times(IF item.rating = 0 THEN DefaultRating ELSE DoubleOf(item.rating),
          IF item.completed THEN DoubleOf(1) ELSE UncompletedWeight)

\* One <<genre id, rating * weight>> per genre of each row, in the order the
\* two nested forEach loops visit them.
RECURSIVE PreferenceTerms(_, _)
PreferenceTerms(userContent, k) ==
    IF k > Len(userContent) THEN <<>>
    ELSE LET gs == SetToSeq(Catalog[userContent[k].contentId].genres)
         IN  [i \in 1..Len(gs) |-> <<gs[i], PreferenceScore(userContent[k])>>]
             \o PreferenceTerms(userContent, k + 1)

\* lines 415-420: genreScores[genre.id] += score, a new key starting at 0
AddGenreScore(genreScores, g, score) ==
    IF Has(genreScores, g)
    THEN [i \in 1..Len(genreScores) |->
             IF genreScores[i][1] = g THEN <<g, Plus(genreScores[i][2], score)>>
             ELSE genreScores[i]]
    ELSE Append(genreScores, <<g, Plus(Zero, score)>>)

\* genreScores after the first i terms
RECURSIVE GenreScoresFrom(_, _)
GenreScoresFrom(terms, i) ==
    IF i = 0 THEN <<>>
    ELSE AddGenreScore(GenreScoresFrom(terms, i - 1), terms[i][1], terms[i][2])

\* lines 425-429: genreScores[genreId] /= totalScore when totalScore > 0
Normalized(genreScores, totalScore) ==
    IF Less(Zero, totalScore)
    THEN [i \in 1..Len(genreScores) |->
             <<genreScores[i][1], Over(genreScores[i][2], totalScore)>>]
    ELSE genreScores

\* The map getUserGenrePreferences returns for the rows it read
GenrePreferencesOf(terms) ==
    Normalized(GenreScoresFrom(terms, Len(terms)),
               reduce([i \in 1..Len(terms) |-> terms[i][2]]))

\* getUserGenrePreferences(userId), lines 386-432, on the store as it stands
getUserGenrePreferences(u) == GenrePreferencesOf(PreferenceTerms(UserContentOf(u), 1))

\* lines 446-450: the preference of a genre is added when it is truthy
AddPreference(matchScore, userPreferences, g) ==
    IF Has(userPreferences, g) /\ Get(userPreferences, g) # Zero
    THEN Plus(matchScore, Get(userPreferences, g))
    ELSE matchScore

RECURSIVE MatchScoreFrom(_, _, _)
MatchScoreFrom(contentGenres, userPreferences, i) ==
    IF i = 0 THEN Zero
    ELSE AddPreference(MatchScoreFrom(contentGenres, userPreferences, i - 1),
                       userPreferences, contentGenres[i])

\* calculateGenreMatchScore(contentGenres, userPreferences), lines 440-454,
\* for the genres of a content item in the order the row lists them
calculateGenreMatchScore(contentGenres, userPreferences) ==
    IF Len(contentGenres) = 0 THEN Zero
    ELSE Over(MatchScoreFrom(contentGenres, userPreferences, Len(contentGenres)),
              DoubleOf(Len(contentGenres)))

\* line 193: the number 0.3
GenreMatchThreshold == [sign |-> 1, m |-> <<13107, 26214, 19660, 153>>, e |-> -54]

\* rec.score > 0.3
AboveGenreMatchThreshold(score) == Less(GenreMatchThreshold, score)

\* getContentBasedRecommendations, lines 171-195
EngineContentBasedRows(userPreferences, watched, limit) ==
    LET contentWithGenres == Slice(SelectSeq(ContentRows, LAMBDA c : c \notin watched),
                                   limit * 3)
        scoredRecommendations ==
            [i \in 1..Len(contentWithGenres) |->
                [id |-> contentWithGenres[i],
                 score |-> calculateGenreMatchScore(
                               SetToSeq(Catalog[contentWithGenres[i]].genres),
                               userPreferences),
                 recommendationType |-> "content-based"]]
    IN  Slice(SortByScoreDesc(SelectSeq(scoredRecommendations,
                                        LAMBDA rec : AboveGenreMatchThreshold(rec.score))),
              limit)

\* getPopularRecommendations(limit) of the class: ORDER BY rating DESC, score 1.0
EnginePopularRecommendations(limit) ==
    LET ordered == SortByWholeScoreDesc([i \in 1..Len(ContentRows) |->
                                            [id |-> ContentRows[i],
                                             score |-> Catalog[ContentRows[i]].averageRating]])
        top == Slice(ordered, limit)
    IN  [i \in 1..Len(top) |->
            [id |-> top[i].id, score |-> DoubleOf(1), recommendationType |-> "popular"]]

(***************************************************************************)
(* SpecEngine: getPersonalizedRecommendations(userId, limit).  After the   *)
(* cold-start test the two strategies are started together (Promise.all);  *)
(* each is an async method that advances one awaited store read at a time, *)
(* and the reads of the two interleave in any order.  The merge runs when  *)
(* both promises have settled.  pc is the position of the method itself,   *)
(* pcCollab and pcContent those of the strategies.                         *)
(***************************************************************************)
Personalized == "getPersonalizedRecommendations"

\* Rating rows of the target: the extremes, and ratings between them.
EngineTargetRowSets == RatingRowSets \cup {<<2, 1, 1, 0>>, <<3, 0, 0, 2>>}

\* Rating rows of the other user.
EnginePeerRowSets ==
    {NoRatings, <<1, 4, 1, 5>>, <<5, 1, 0, 4>>, <<1, 5, 5, 5>>, <<5, 5, 1, 0>>}

InitEngine ==
    /\ \E target \in EngineTargetRowSets, peer \in EnginePeerRowSets :
          ratings = [u \in Users |-> IF u = "u1" THEN target ELSE peer]
    /\ \E f \in StoreFixtures :
          /\ completed = DOMAIN f.statusRows
          /\ updatedAt = f.statusRows
          /\ rowOrder = f.rowOrder
    /\ genreRows = Genres
    /\ orderByAlias = FALSE
    /\ NoRequest
    /\ IdleElsewhere

\* lines 65-86: the call and the read of the user's rows (line 67); no row:
\* the popular content is read next, else both strategies are started
StartPersonalized ==
    /\ call = NoCall
    /\ pc = "idle"
    /\ \E u \in Targets, limit \in 1..MaxLimit :
        /\ call' = [NoCall EXCEPT !.op = Personalized, !.userId = u, !.limit = limit]
        /\ IF watchedContentIds(u) = {}
           THEN /\ pc' = "engine line 204"
                /\ UNCHANGED <<pcCollab, pcContent>>
           ELSE /\ pc' = "engine line 83"
                /\ pcCollab' = "engine line 277"
                /\ pcContent' = "engine line 391"
    /\ UNCHANGED <<mergeVars, storeVars, heroVars, result, edges, locals,
                   collabLocals, contentLocals, collaborativeRecs, contentBasedRecs, settled>>

\* line 79 and getPopularRecommendations, lines 203-213
PersonalizedPopular ==
    /\ pc = "engine line 204"
    /\ personalized' = Ready(EnginePopularRecommendations(call.limit))
    /\ mergeLimit' = call.limit
    /\ pc' = "settled"
    /\ UNCHANGED <<allRecommendations, uniqueRecommendations, storeVars, heroVars,
                   call, result, edges, locals, engVars>>

\* findSimilarUsers, lines 277-286: the read of the user's ratings
CollabReadRatings ==
    /\ pcCollab = "engine line 277"
    /\ LET userRatings == RatingRowsOf(call.userId)
       IN  /\ collabLocals' = [collabLocals EXCEPT !.userRatings = userRatings]
           /\ IF Len(userRatings) = 0
              THEN /\ collaborativeRecs' = <<>>
                   /\ pcCollab' = "done"
                   /\ settled' = Append(settled, "collaborative")
              ELSE /\ pcCollab' = "engine line 291"
                   /\ UNCHANGED <<collaborativeRecs, settled>>
    /\ UNCHANGED <<mergeVars, storeVars, heroVars, svcVars, pcContent, contentLocals, contentBasedRecs>>

\* findSimilarUsers from its second read (line 291) to its return, and
\* lines 106-110
CollabFindSimilarUsers ==
    /\ pcCollab = "engine line 291"
    /\ \E similarUsers \in {EngineSimilarities(collabLocals.userRatings,
                                                 OtherUserRatings(call.userId,
                                                                  collabLocals.userRatings))} :
           /\ collabLocals' = [collabLocals EXCEPT !.similarUsers = similarUsers]
           /\ IF similarUsers = <<>>
              THEN /\ collaborativeRecs' = <<>>
                   /\ pcCollab' = "done"
                   /\ settled' = Append(settled, "collaborative")
              ELSE /\ pcCollab' = "engine line 113"
                   /\ UNCHANGED <<collaborativeRecs, settled>>
    /\ UNCHANGED <<mergeVars, storeVars, heroVars, svcVars, pcContent, contentLocals, contentBasedRecs>>

\* lines 113-118
CollabReadWatched ==
    /\ pcCollab = "engine line 113"
    /\ collabLocals' = [collabLocals EXCEPT !.watchedContentIds = watchedContentIds(call.userId)]
    /\ pcCollab' = "engine line 121"
    /\ UNCHANGED <<mergeVars, storeVars, heroVars, svcVars, pcContent, contentLocals,
                   collaborativeRecs, contentBasedRecs, settled>>

\* lines 121-145
CollabReadRecommendations ==
    /\ pcCollab = "engine line 121"
    /\ \E recs \in {EngineCollaborativeRows(collabLocals.similarUsers,
                                             collabLocals.watchedContentIds, call.limit)} :
           collaborativeRecs' = recs
    /\ pcCollab' = "done"
    /\ settled' = Append(settled, "collaborative")
    /\ UNCHANGED <<mergeVars, storeVars, heroVars, svcVars, pcContent, collabLocals, contentLocals,
                   contentBasedRecs>>

\* getUserGenrePreferences (its read is line 391) and lines 156-160
ContentReadPreferences ==
    /\ pcContent = "engine line 391"
    /\ \E userPreferences \in {getUserGenrePreferences(call.userId)} :
           /\ contentLocals' = [contentLocals EXCEPT !.userPreferences = userPreferences]
           /\ IF Len(Keys(userPreferences)) = 0
              THEN /\ contentBasedRecs' = <<>>
                   /\ pcContent' = "done"
                   /\ settled' = Append(settled, "content-based")
              ELSE /\ pcContent' = "engine line 163"
                   /\ UNCHANGED <<contentBasedRecs, settled>>
    /\ UNCHANGED <<mergeVars, storeVars, heroVars, svcVars, pcCollab, collabLocals, collaborativeRecs>>

\* lines 163-168
ContentReadWatched ==
    /\ pcContent = "engine line 163"
    /\ contentLocals' = [contentLocals EXCEPT !.watchedContentIds = watchedContentIds(call.userId)]
    /\ pcContent' = "engine line 171"
    /\ UNCHANGED <<mergeVars, storeVars, heroVars, svcVars, pcCollab, collabLocals,
                   collaborativeRecs, contentBasedRecs, settled>>

\* lines 171-195
ContentScoreCandidates ==
    /\ pcContent = "engine line 171"
    /\ \E recs \in {EngineContentBasedRows(contentLocals.userPreferences,
                                            contentLocals.watchedContentIds, call.limit)} :
           contentBasedRecs' = recs
    /\ pcContent' = "done"
    /\ settled' = Append(settled, "content-based")
    /\ UNCHANGED <<mergeVars, storeVars, heroVars, svcVars, pcCollab, collabLocals, contentLocals,
                   collaborativeRecs>>

\* A join that resumes as soon as one of the two promises has settled.
EitherSettled == pcCollab = "done" \/ pcContent = "done"

\* line 83: await Promise.all([...]) resumes when both promises have settled
BothSettled == pcCollab = "done" /\ pcContent = "done"

\* lines 89-95: concatenate the two slots, deduplicate, sort the
\* deduplicated array in place, slice
MergePersonalized ==
    /\ pc = "engine line 83"
    /\ BothSettled
    /\ \E unique \in {SortByScoreDesc(deduplicateRecommendations(
                          collaborativeRecs \o contentBasedRecs))} :
           /\ uniqueRecommendations' = Ready(unique)
           /\ personalized' = Ready(Slice(unique, call.limit))
    /\ allRecommendations' = collaborativeRecs \o contentBasedRecs
    /\ mergeLimit' = call.limit
    /\ pc' = "settled"
    /\ UNCHANGED <<storeVars, heroVars, call, result, edges, locals, engVars>>

\* The controller sends the list; nothing of the request is kept.
RespondPersonalized ==
    /\ call.op = Personalized
    /\ pc = "settled"
    /\ call' = NoCall
    /\ pc' = "idle"
    /\ allRecommendations' = <<>> /\ uniqueRecommendations' = NotYet
    /\ personalized' = NotYet /\ mergeLimit' = 0
    /\ pcCollab' = "idle" /\ pcContent' = "idle"
    /\ collabLocals' = NoCollabLocals /\ contentLocals' = NoContentLocals
    /\ collaborativeRecs' = <<>> /\ contentBasedRecs' = <<>> /\ settled' = <<>>
    /\ UNCHANGED <<storeVars, heroVars, result, edges, locals>>

NextEngine ==
    \/ StartPersonalized
    \/ PersonalizedPopular
    \/ CollabReadRatings
    \/ CollabFindSimilarUsers
    \/ CollabReadWatched
    \/ CollabReadRecommendations
    \/ ContentReadPreferences
    \/ ContentReadWatched
    \/ ContentScoreCandidates
    \/ MergePersonalized
    \/ RespondPersonalized

SpecEngine == InitEngine /\ [][NextEngine]_vars

\* The same requests while the rest of the application writes rating rows.
NextEngineConcurrent == NextEngine \/ WriteStore

SpecEngineConcurrent == InitConcurrent /\ [][NextEngineConcurrent]_vars

\* The list a request returns when each strategy runs alone to completion.
CollaborativeAlone(u, limit) ==
    IF EngineFindSimilarUsers(u) = <<>> THEN <<>>
    ELSE EngineCollaborativeRows(EngineFindSimilarUsers(u), watchedContentIds(u), limit)

ContentBasedAlone(u, limit) ==
    IF Len(getUserGenrePreferences(u)) = 0 THEN <<>>
    ELSE EngineContentBasedRows(getUserGenrePreferences(u), watchedContentIds(u), limit)

\* C9: the collaborative and content-based strategies of
\* getPersonalizedRecommendations run concurrently, and the returned list is
\* the same for every order in which their store reads and their promises
\* complete: it is the merge of what each strategy returns on its own.
C9_ResultIndependentOfCompletionOrder ==
    (call.op = Personalized /\ personalized.ready /\ pcCollab # "idle") =>
        personalized.list = HybridMerge(CollaborativeAlone(call.userId, call.limit)
                                     \o ContentBasedAlone(call.userId, call.limit),
                                   call.limit)

\* The content-based promise settled first, both strategies produced
\* candidates, and the merged list holds entries of both.
C9_Witness ==
    /\ call.op = Personalized
    /\ personalized.ready
    /\ settled = <<"content-based", "collaborative">>
    /\ collaborativeRecs # <<>>
    /\ contentBasedRecs # <<>>
    /\ \E e \in Range(personalized.list) : e.recommendationType = "collaborative"
    /\ \E e \in Range(personalized.list) : e.recommendationType = "content-based"

\* The public operations of recommendationService that take a limit.
LimitedOperations ==
    {"getCollaborativeRecommendations", "getContentBasedRecommendations",
     "getSimilarContentRecommendations", "getPopularRecommendations",
     "getDiscoveryRecommendations", "getBecauseYouWatchedRecommendations"}

\* C17: every public recommendation operation returns at most limit items
\* for the caller's limit: the entry points of recommendationService with
\* their fallback paths, and getPersonalizedRecommendations,
\* getCollaborativeFilteringRecommendations and
\* getContentBasedRecommendations of the class-based service.
C17_AtMostLimitItems ==
    /\ call.op \in LimitedOperations => Len(result.list) <= call.limit
    /\ (call.op = Personalized /\ personalized.ready)
          => Len(personalized.list) <= call.limit
    /\ (call.op = Personalized /\ pcCollab = "done")
          => Len(collaborativeRecs) <= call.limit
    /\ (call.op = Personalized /\ pcContent = "done")
          => Len(contentBasedRecs) <= call.limit

\* Two numbers that agree up to the rounding of a few operations
Tolerance == [sign |-> 1, m |-> <<1>>, e |-> -40]

Close(x, y) == x = y \/ Less(Magnitude(Minus(x, y)), Times(Magnitude(y), Tolerance))

\* The claimed collaborative score of a content item: the sum over the
\* accepted peers who rated it 4.0 or more of coefficient * (peerRating / 5.0)
RECURSIVE PeerSum(_, _, _)
PeerSum(similarUsers, id, i) ==
    IF i = 0 THEN Zero
    ELSE IF ratings[similarUsers[i].userId][id] >= LikedRating
    THEN Plus(PeerSum(similarUsers, id, i - 1),
              Times(similarUsers[i].score,
                    Over(DoubleOf(ratings[similarUsers[i].userId][id]), DoubleOf(FullRating))))
    ELSE PeerSum(similarUsers, id, i - 1)

\* C26: the collaborative score of a recommended content item is the sum,
\* over the accepted peers who rated it 4.0 or higher, of
\* coefficient * (peerRating / 5.0), and it is strictly positive.
C26_CollaborativeScoreIsPeerSum ==
    (call.op = Personalized /\ pcCollab = "done") =>
        \A e \in Range(collaborativeRecs) :
            /\ Close(e.score, PeerSum(collabLocals.similarUsers, e.id,
                                      Len(collabLocals.similarUsers)))
            /\ Less(Zero, e.score)

(***************************************************************************)
(* SpecScoring: the two content-attribute scoring functions applied to a   *)
(* catalog item and to the same item with one more attribute, for every    *)
(* bounded preference map of the user.                                     *)
(***************************************************************************)
AttributeClasses == {"genres", "directors", "actors"}
AttributeIds == Genres      \* genre, director and actor ids of the catalog

\* The content item with one more attribute in one class.
WithAttribute(content, class, a) == [content EXCEPT ![class] = @ \cup {a}]

InitScoring ==
    /\ \E target \in RatingRowSets :
          ratings = [u \in Users |-> IF u = "u1" THEN target ELSE NoRatings]
    /\ \E f \in StoreFixtures :
          /\ completed = DOMAIN f.statusRows
          /\ updatedAt = f.statusRows
          /\ rowOrder = f.rowOrder
    /\ genreRows = Genres
    /\ orderByAlias = FALSE
    /\ NoRequest
    /\ IdleElsewhere

\* recommendationService._scoreContentByAttributes, the scoring of one item
ScoreByAttributes ==
    /\ call = NoCall
    /\ \E u \in Targets, c \in Items, class \in AttributeClasses, a \in AttributeIds :
        /\ a \notin Catalog[c][class]
        /\ call' = [op |-> "_scoreContentByAttributes", userId |-> u, contentId |-> c,
                    class |-> class, added |-> a]
        /\ result' = [before |-> AttributeScoreOf(FavoriteItems(userFavorites(u)), Catalog[c]),
                      after |-> AttributeScoreOf(FavoriteItems(userFavorites(u)),
                                                 WithAttribute(Catalog[c], class, a))]
    /\ pc' = "settled"
    /\ UNCHANGED <<edges, locals, storeVars, heroVars, mergeVars, engVars>>

\* RecommendationService.calculateGenreMatchScore
ScoreByGenreMatch ==
    /\ call = NoCall
    /\ \E u \in Targets, c \in Items, a \in Genres :
        /\ a \notin Catalog[c].genres
        /\ \E userPreferences \in {getUserGenrePreferences(u)} :
            /\ call' = [op |-> "calculateGenreMatchScore", userId |-> u, contentId |-> c,
                        class |-> "genres", added |-> a,
                        userPreferences |-> userPreferences]
            /\ result' = [before |-> calculateGenreMatchScore(SetToSeq(Catalog[c].genres),
                                                              userPreferences),
                          after |-> calculateGenreMatchScore(
                                        SetToSeq(Catalog[c].genres \cup {a}),
                                        userPreferences)]
    /\ pc' = "settled"
    /\ UNCHANGED <<edges, locals, storeVars, heroVars, mergeVars, engVars>>

NextScoring == ScoreByAttributes \/ ScoreByGenreMatch \/ Respond

SpecScoring == InitScoring /\ [][NextScoring]_vars

\* C19: content-attribute scoring is monotone in overlap: adding to a
\* candidate one more attribute that is among the user's favourites never
\* lowers its score, in _scoreContentByAttributes and in the normalised
\* calculateGenreMatchScore.
C19_ScoreMonotoneInOverlap ==
    /\ (/\ call.op = "_scoreContentByAttributes"
        /\ FavoriteCount(FavoriteItems(userFavorites(call.userId)),
                         call.class, call.added) > 0)
          => result.after >= result.before
    /\ (/\ call.op = "calculateGenreMatchScore"
        /\ Has(call.userPreferences, call.added)
        /\ Less(Zero, Get(call.userPreferences, call.added)))
          => ~Less(result.after, result.before)

\* The overlap of a content item with one favourite item, weighted 8 per
\* shared genre, 15 per shared director and 6 per shared actor.
WeightedOverlap(content, favorite) ==
      8 * Cardinality(content.genres \cap Catalog[favorite].genres)
    + 15 * Cardinality(content.directors \cap Catalog[favorite].directors)
    + 6 * Cardinality(content.actors \cap Catalog[favorite].actors)

ClaimedAttributeScore(u, content) ==
    LET favorites == {f \in Items : ratings[u][f] >= 4}
    IN  SumOver(favorites, [f \in Items |-> WeightedOverlap(content, f)])

\* C27: the score _scoreContentByAttributes gives a candidate is 8 times
\* the sum of the favourite counts of its genres plus 15 times that of its
\* directors plus 6 times that of its actors, with no cap on any term; the
\* favourite count of an attribute is the number of the user's favourite
\* items (rated 4.0 or more) that carry it.
C27_AttributeScoreIsWeightedCountSum ==
    call.op = "_scoreContentByAttributes" =>
        /\ result.before = ClaimedAttributeScore(call.userId, Catalog[call.contentId])
        /\ result.after =
              ClaimedAttributeScore(call.userId,
                                    WithAttribute(Catalog[call.contentId], call.class,
                                                  call.added))

\* The added attribute is carried by two favourites of the user and raises
\* the score by twice its weight.
C27_Witness ==
    /\ call.op = "_scoreContentByAttributes"
    /\ call.class = "directors"
    /\ Cardinality({f \in Items : /\ ratings[call.userId][f] >= 4
                                  /\ call.added \in Catalog[f].directors}) = 2
    /\ result.after = result.before + 30
    /\ result.before > 0

(***************************************************************************)
(* SpecSimilar: the two similar-user searches on bounded rating tables.    *)
(* _findSimilarUsers(userId, userRatings) is handed the user's rating rows *)
(* and awaits one read (line 368); findSimilarUsers(userId) of the         *)
(* class-based service awaits two (lines 277 and 291).                     *)
(***************************************************************************)
\* Rating rows of the target: the extremes, and ratings between them.
SimilarTargetRowSets == RatingRowSets \cup {<<4, 1, 1, 0>>, <<2, 1, 1, 0>>}

\* Rating rows of the other user.
SimilarPeerRowSets ==
    {NoRatings, <<0, 0, 1, 5>>, <<0, 5, 1, 5>>, <<0, 1, 5, 1>>, <<1, 1, 1, 1>>,
     <<5, 5, 5, 5>>, <<1, 4, 1, 0>>, <<5, 5, 1, 0>>, <<1, 1, 1, 5>>, <<1, 5, 1, 5>>,
     <<5, 1, 5, 1>>, <<1, 5, 5, 5>>}

InitSimilar ==
    /\ \E target \in SimilarTargetRowSets, peer \in SimilarPeerRowSets :
          ratings = [u \in Users |-> IF u = "u1" THEN target ELSE peer]
    /\ completed = {}
    /\ updatedAt = << >>
    /\ rowOrder \in {<<1, 2, 3, 4>>, <<4, 3, 2, 1>>}
    /\ genreRows = Genres
    /\ orderByAlias = FALSE
    /\ NoRequest
    /\ IdleElsewhere

\* recommendationService._findSimilarUsers(userId, userRatings) with the
\* user's rating rows as the caller read them
FindSimilarUsersOfService ==
    /\ call = NoCall
    /\ \E u \in Targets :
        /\ call' = [NoCall EXCEPT !.op = "_findSimilarUsers", !.userId = u]
        /\ \E similarUsers \in {ServiceFindSimilarUsers(u)} :
              /\ edges' = [computed |-> TRUE, list |-> similarUsers]
              /\ Settle(NoResult, [NoLocals EXCEPT !.calls = <<"db.userRatings.findAll">>,
                                                   !.userRatings = RatingRowsOf(u),
                                                   !.similarUsers = similarUsers])
    /\ UNCHANGED <<storeVars, heroVars, mergeVars, engVars>>

\* RecommendationService.findSimilarUsers(userId), lines 275-286
FindSimilarUsersOfEngine ==
    /\ call = NoCall
    /\ \E u \in Targets :
        /\ call' = [NoCall EXCEPT !.op = "findSimilarUsers", !.userId = u]
        /\ LET read == [NoLocals EXCEPT !.calls = <<"UserList.findAll">>,
                                        !.userRatings = RatingRowsOf(u)]
           IN  IF Len(RatingRowsOf(u)) = 0
               THEN /\ edges' = [computed |-> TRUE, list |-> <<>>]
                    /\ Settle(NoResult, read)
               ELSE /\ edges' = NoEdges
                    /\ Await("engine line 291", read)
    /\ UNCHANGED <<storeVars, heroVars, mergeVars, engVars>>

\* findSimilarUsers from its second read (line 291) to its return
EngineReadOtherUsers ==
    /\ pc = "engine line 291"
    /\ call.op = "findSimilarUsers"
    /\ \E similarUsers \in {EngineSimilarities(locals.userRatings,
                                                 OtherUserRatings(call.userId,
                                                                  locals.userRatings))} :
          /\ edges' = [computed |-> TRUE, list |-> similarUsers]
          /\ Settle(NoResult, [Called("UserList.findAll") EXCEPT !.similarUsers = similarUsers])
    /\ UNCHANGED <<call, storeVars, heroVars, mergeVars, engVars>>

NextSimilar ==
    \/ FindSimilarUsersOfService
    \/ FindSimilarUsersOfEngine
    \/ EngineReadOtherUsers
    \/ Respond

SpecSimilar == InitSimilar /\ [][NextSimilar]_vars

\* A search has returned.
SearchReturned(op) == call.op = op /\ pc = "settled"

\* The content both users have rated.
Common(u, p) == Rated(u) \cap Rated(p)

\* C8: a peer with fewer than 3 rated items in common with the target is
\* never in the similar-user list, for _findSimilarUsers and for
\* findSimilarUsers of the class-based service.
C8_PeerNeedsThreeCommonItems ==
    (SearchReturned("_findSimilarUsers") \/ SearchReturned("findSimilarUsers")) =>
        \A e \in Range(edges.list) :
            Cardinality(Common(call.userId, e.userId)) >= 3

ListedPeers == {e.userId : e \in Range(edges.list)}

\* The Pearson correlation of two users' ratings over their common items.
PearsonOverCommon(u, p) ==
    calculatePearsonCorrelation(RatingMapOf(RatingRowsOf(u)), RatingMapOf(RatingRowsOf(p)))

\* The coefficient _findSimilarUsers computes for a peer.
CosineOverCommon(u, p) ==
    SimilarityOver(RatingMapOf(RatingRowsOf(u)), RatingMapOf(RatingRowsOf(p)))

\* C23: the coefficient _findSimilarUsers computes for a listed peer is the
\* Pearson correlation of the two users' ratings over their common items,
\* and a peer whose ratings over 3 or more common items are anti-correlated
\* (negative Pearson correlation) is not accepted.
C23_ServiceCoefficientIsPearson ==
    SearchReturned("_findSimilarUsers") =>
        /\ \A e \in Range(edges.list) :
              Close(e.score, PearsonOverCommon(call.userId, e.userId))
        /\ \A p \in Users \ {call.userId} :
              (/\ Cardinality(Common(call.userId, p)) >= MinCommonItems
               /\ Less(PearsonOverCommon(call.userId, p), Zero))
                  => p \notin ListedPeers

\* The single threshold of the claim: the number 0.3
ClaimedThreshold == [sign |-> 1, m |-> <<13107, 26214, 19660, 153>>, e |-> -54]

\* C24: in both similar-user searches a peer is listed exactly when it has
\* 3 or more common items with the target and the coefficient the search
\* computes for it is strictly above 0.3.
C24_ListedIffThreeCommonAndAboveThreeTenths ==
    /\ SearchReturned("_findSimilarUsers") =>
          \A p \in Users \ {call.userId} :
              p \in ListedPeers <=>
                  (/\ Cardinality(Common(call.userId, p)) >= MinCommonItems
                   /\ Less(ClaimedThreshold, CosineOverCommon(call.userId, p)))
    /\ SearchReturned("findSimilarUsers") =>
          \A p \in Users \ {call.userId} :
              p \in ListedPeers <=>
                  (/\ Cardinality(Common(call.userId, p)) >= MinCommonItems
                   /\ Less(ClaimedThreshold, PearsonOverCommon(call.userId, p)))

(***************************************************************************)
(* SpecCrowd: the two similar-user searches for a target with 9 to 11      *)
(* peers.  The peers whose rows come first rate the target's items like a  *)
(* profile that correlates less with the target's, the others like the     *)
(* target itself.                                                          *)
(***************************************************************************)
CrowdUsers == Range(AllUserSeq)
FewestPeers == MaxSimilarUsers - 1

TargetProfiles == {<<1, 5, 1, 5>>, <<1, 5, 1, 4>>}
NearProfile == <<1, 5, 1, 5>>
FarProfile == <<1, 5, 5, 5>>

\* The rating table with the given target, n peers and the first k of them
\* rating like FarProfile
CrowdRatings(target, n, k) ==
    [u \in CrowdUsers |->
        IF u = "u1" THEN target
        ELSE LET i == CHOOSE j \in 1..Len(AllUserSeq) : AllUserSeq[j] = u
             IN  IF i > n + 1 THEN NoRatings
                 ELSE IF i <= k + 1 THEN FarProfile
                 ELSE NearProfile]

InitCrowd ==
    /\ \E target \in TargetProfiles, n \in FewestPeers..(Len(AllUserSeq) - 1) :
          \E k \in 0..n : ratings = CrowdRatings(target, n, k)
    /\ completed = {}
    /\ updatedAt = << >>
    /\ rowOrder = <<1, 2, 3, 4>>
    /\ genreRows = Genres
    /\ orderByAlias = FALSE
    /\ NoRequest
    /\ IdleElsewhere

SpecCrowd == InitCrowd /\ [][NextSimilar]_vars

\* The coefficient the search of the call computes for a peer.
CoefficientOfCall(p) ==
    IF call.op = "_findSimilarUsers" THEN CosineOverCommon(call.userId, p)
    ELSE PearsonOverCommon(call.userId, p)

\* The peers the search of the call accepts.
AcceptedByCall(p) ==
    IF call.op = "_findSimilarUsers"
    THEN /\ Cardinality(Common(call.userId, p)) >= MinCommonItems
         /\ Less(SimilarityThreshold, CoefficientOfCall(p))
    ELSE /\ Common(call.userId, p) # {}
         /\ Less(PearsonThreshold, CoefficientOfCall(p))

\* C25: the similar-user list of both searches is in descending order of
\* coefficient and holds at most 10 peers, the 10 accepted peers of highest
\* coefficient.
C25_SortedTopTen ==
    (SearchReturned("_findSimilarUsers") \/ SearchReturned("findSimilarUsers")) =>
        /\ \A i, j \in 1..Len(edges.list) :
              i < j => ~Less(edges.list[i].score, edges.list[j].score)
        /\ Len(edges.list) <= MaxSimilarUsers
        /\ \A p \in DOMAIN ratings \ ({call.userId} \cup ListedPeers) :
              AcceptedByCall(p) =>
                  \A e \in Range(edges.list) : ~Less(e.score, CoefficientOfCall(p))

(***************************************************************************)
(* SpecItemSimilarity: the two item-similarity scorers of the repository,  *)
(* the scoring step of getSimilarContentRecommendations (part_001) and     *)
(* calculateContentSimilarity of the class-based service, applied to       *)
(* bounded seed and candidate attribute sets; the candidates share a genre *)
(* with the seed, as the query of line 194-208 returns them.               *)
(***************************************************************************)
ActorIds == 1..4
SeedGenreSets == {{1}, {1, 2}, {1, 2, 3}}
SeedDirectorSets == {{}, {1}}
SeedActorSets == {{}, {1}, {1, 2, 3}, {1, 2, 3, 4}}
CandidateDirectorSets == {{}, {1}, {2}}

InitItemSimilarity ==
    /\ ratings = [u \in Users |-> NoRatings]
    /\ completed = {}
    /\ updatedAt = << >>
    /\ rowOrder = SetToSeq(Items)
    /\ genreRows = Genres
    /\ orderByAlias = FALSE
    /\ NoRequest
    /\ IdleElsewhere

\* line 210-236: similarContent.map(similar => ...) for one candidate
ScoreSimilarContent ==
    /\ call = NoCall
    /\ \E sg \in SeedGenreSets, sd \in SeedDirectorSets, sa \in SeedActorSets,
          cg \in SUBSET Genres, cd \in CandidateDirectorSets, ca \in SUBSET ActorIds :
        LET content == [genres |-> sg, directors |-> sd, actors |-> sa]
            similar == [genres |-> cg, directors |-> cd, actors |-> ca]
        IN  /\ cg \cap sg # {}
            /\ call' = [op |-> "scoreSimilarContent", content |-> content,
                        similar |-> similar]
            /\ result' = [score |-> SimilarScoreOf(content, similar)]
    /\ pc' = "settled"
    /\ UNCHANGED <<edges, locals, storeVars, heroVars, mergeVars, engVars>>

\* recommendation-engine-implementation.js line 255:
\* this.calculateContentSimilarity(content, similar) for one candidate
CallContentSimilarity ==
    /\ call = NoCall
    /\ \E sg \in SeedGenreSets, sd \in SeedDirectorSets, sa \in SeedActorSets,
          cg \in SUBSET Genres, cd \in CandidateDirectorSets, ca \in SUBSET ActorIds :
        LET content == [genres |-> sg, directors |-> sd, actors |-> sa]
            similar == [genres |-> cg, directors |-> cd, actors |-> ca]
        IN  /\ cg \cap sg # {}
            /\ call' = [op |-> "calculateContentSimilarity", content |-> content,
                        similar |-> similar]
            /\ result' = [score |-> calculateContentSimilarity(content, similar)]
    /\ pc' = "settled"
    /\ UNCHANGED <<edges, locals, storeVars, heroVars, mergeVars, engVars>>

NextItemSimilarity == ScoreSimilarContent \/ CallContentSimilarity \/ Respond

SpecItemSimilarity == InitItemSimilarity /\ [][NextItemSimilarity]_vars

SharedCount(class) == Cardinality(call.similar[class] \cap call.content[class])

\* The claimed score of the scored candidate, as the number nearest to the
\* exact value of the formula: over the denominator 3 * |seed genres| the
\* numerator is whole.
ClaimedSimilarityScore ==
    LET G == Cardinality(call.content.genres)
        actors == SharedCount("actors")
        director == IF SharedCount("directors") > 0 THEN 30 ELSE 0
    IN  Over(DoubleOf(  3 * 50 * SharedCount("genres")
                      + 3 * G * director
                      + G * (IF 20 * actors < 60 THEN 20 * actors ELSE 60)),
             DoubleOf(3 * G))

\* The score of the scored candidate on the 0-100 scale: the class-based
\* scorer returns a number meant to lie in [0, 1].
ScoreOutOfHundred ==
    IF call.op = "calculateContentSimilarity"
    THEN Times(result.score, DoubleOf(100))
    ELSE result.score

\* C28: for a seed with at least one genre the item-similarity score of a
\* candidate, on the 0-100 scale, is
\* 50 * |shared genres| / |seed genres| + (30 if a director is shared)
\* + min(20 * |shared actors| / 3, 20), up to the rounding of the
\* arithmetic; it lies in [0, 100]; a candidate sharing both of 2 seed
\* genres, a director and 2 actors scores 50 + 30 + 40/3.
C28_ItemSimilarityScore ==
    call.op \in {"scoreSimilarContent", "calculateContentSimilarity"} =>
        /\ Close(ScoreOutOfHundred, ClaimedSimilarityScore)
        /\ ~Less(ScoreOutOfHundred, Zero)
        /\ ~Less(DoubleOf(100), ScoreOutOfHundred)
        /\ (/\ Cardinality(call.content.genres) = 2
            /\ SharedCount("genres") = 2
            /\ SharedCount("directors") > 0
            /\ SharedCount("actors") = 2)
              => Close(ScoreOutOfHundred, Over(DoubleOf(280), DoubleOf(3)))

\* C28 for the scoring step of getSimilarContentRecommendations alone: its
\* score is the claimed one.
ServiceScoreIsClaimedScore ==
    call.op = "scoreSimilarContent" =>
        /\ Close(result.score, ClaimedSimilarityScore)
        /\ ~Less(DoubleOf(100), result.score)

(***************************************************************************)
(* SpecDiscovery: getDiscoveryRecommendations on every bounded rating map  *)
(* of the target, over the catalog of 3 genres and over the one of 6.      *)
(***************************************************************************)
InitDiscovery ==
    /\ \E target \in RatingRowSets :
          ratings = [u \in Users |-> IF u = "u1" THEN target ELSE NoRatings]
    /\ \E f \in StoreFixtures :
          /\ completed = DOMAIN f.statusRows
          /\ updatedAt = f.statusRows
          /\ rowOrder = f.rowOrder
    /\ genreRows \in {Genres, WideGenres}
    /\ orderByAlias \in BOOLEAN
    /\ NoRequest
    /\ IdleElsewhere

NextDiscovery == Discovery \/ FallBackToPopular \/ Respond

SpecDiscovery == InitDiscovery /\ [][NextDiscovery]_vars

\* The genres of the items the user has rated.
RatedGenres(u) == UNION {Catalog[c].genres : c \in Rated(u)}

\* The call went to _getHighlyRatedUnpopularContent.
TookInversePopularity ==
    \E i \in 1..Len(locals.calls) : locals.calls[i] = "_getHighlyRatedUnpopularContent"

\* C29: getDiscoveryRecommendations takes the inverse-popularity path
\* (_getHighlyRatedUnpopularContent) exactly when the user has a preferred
\* genre and every catalog genre is among the user's at most 5 preferred
\* genres; with more than 5 catalog genres the path is never taken; a user
\* with no ratings gets the output of getPopularRecommendations.
C29_InversePopularityPathIffGenresExhausted ==
    (call.op = "getDiscoveryRecommendations" /\ call.down = {} /\ Settled) =>
        LET u == call.userId
            exhausted == /\ RatedGenres(u) # {}
                         /\ genreRows \subseteq RatedGenres(u)
                         /\ Cardinality(genreRows) <= 5
        IN  /\ TookInversePopularity <=> exhausted
            /\ exhausted =>
                  result = Resolved(Tagged(HighlyRatedUnpopularContent(
                                               getUserContentIds(u), call.limit),
                                           "discovery"))
            /\ Cardinality(genreRows) > 5 => ~TookInversePopularity
            /\ Len(locals.userGenres) <= 5
            /\ Rated(u) = {} =>
                  /\ Delegated
                  /\ result = getPopularRecommendations(OptionsOf(call), call.down)

\* The user has rated items of all 6 genres of the wide catalog; the call
\* took the discovery query and returned an item of the genre cut from the
\* preferred list.
C29_Witness ==
    /\ call.op = "getDiscoveryRecommendations"
    /\ call.down = {}
    /\ Settled
    /\ Cardinality(genreRows) = 6
    /\ RatedGenres(call.userId) = genreRows
    /\ ~TookInversePopularity
    /\ Len(locals.userGenres) = 5
    /\ result.status = "resolved"
    /\ result.list # <<>>

(***************************************************************************)
(* SpecPearson: the two Pearson correlation functions,                     *)
(* calculatePearsonCorrelation(vector1, vector2) of utils/mathUtils.js on  *)
(* vectors of ratings and calculatePearsonCorrelation(userRatings1,        *)
(* userRatings2) of the class-based service on rating maps, each applied   *)
(* to a pair of arguments and to the same pair swapped.  The ratings of    *)
(* the vectors are given in tenths, those of the maps in whole stars.      *)
(***************************************************************************)
\* The JavaScript number of a rating given in tenths: the double nearest to
\* it.
NumberOfTenths(t) == Over(DoubleOf(t), DoubleOf(10))

NumbersOf(v) == [i \in 1..Len(v) |-> NumberOfTenths(v[i])]

One == DoubleOf(1)

Threw == [threw |-> TRUE, value |-> Zero]
Returned(v) == [threw |-> FALSE, value |-> v]

\* calculatePearsonCorrelation(vector1, vector2) of mathUtils.js, lines
\* 85-117: vectors of different lengths throw; for empty vectors the loop
\* does not run and denom1 === 0 returns 0.
PearsonOfVectors(vector1, vector2) ==
    IF Len(vector1) # Len(vector2) THEN Threw
    ELSE IF Len(vector1) = 0 THEN Returned(Zero)
    ELSE Returned(CoefficientOfNumbers(vector1, vector2))

PearsonOperations == {"mathUtils.calculatePearsonCorrelation", "calculatePearsonCorrelation"}

\* The two sequences of ratings that a call compares element by element:
\* the vectors themselves, or the two maps' ratings of the common items in
\* the order of the first map's keys.
ComparedRatings(op, first, second) ==
    IF op = "mathUtils.calculatePearsonCorrelation" THEN <<first, second>>
    ELSE <<RatingsOver(first, commonItems(first, second)),
           RatingsOver(second, commonItems(first, second))>>

\* The call of one of the two functions
calculatePearsonCorrelationOf(op, first, second) ==
    IF op = "mathUtils.calculatePearsonCorrelation"
    THEN PearsonOfVectors(NumbersOf(first), NumbersOf(second))
    ELSE Returned(calculatePearsonCorrelation(first, second))

\* The vectors the functions are applied to, in tenths: constant ones (whole
\* stars and tenths), the spec's examples, and vectors with a single outlier.
RatingVectors ==
    { <<>>,
      <<10, 10, 10>>, <<20, 20, 20>>, <<37, 37, 37>>, <<35, 35, 35>>,
      <<10, 20, 30>>, <<30, 20, 10>>, <<10, 20, 40>>,
      <<10, 10, 10, 20, 10>>, <<10, 10, 10, 50, 10>>, <<50, 50, 50, 20, 50>>,
      <<10, 20, 30, 40, 50>>, <<30, 30, 30, 30, 30>>, <<10, 50, 10, 50, 20>> }

\* The rating maps, in whole stars: the same ratings entered in different
\* orders, maps with one or no content in common, and a map of equal
\* ratings.
RatingMaps ==
    { << <<1, 1>>, <<2, 1>>, <<3, 2>> >>,
      << <<1, 1>>, <<3, 4>>, <<2, 2>> >>,
      << <<1, 1>>, <<2, 2>>, <<3, 4>> >>,
      << <<3, 5>>, <<2, 2>>, <<1, 1>> >>,
      << <<1, 3>>, <<2, 3>>, <<3, 3>> >>,
      << <<2, 4>>, <<1, 2>> >>,
      << <<3, 5>> >>,
      << <<4, 3>>, <<5, 1>> >> }

ArgumentsOf(op) ==
    IF op = "mathUtils.calculatePearsonCorrelation" THEN RatingVectors ELSE RatingMaps

InitPearson ==
    /\ call = NoCall /\ result = NoResult /\ edges = NoEdges
    /\ pc = "idle" /\ locals = NoLocals
    /\ allRecommendations = None /\ uniqueRecommendations = None
    /\ personalized = None /\ mergeLimit = None
    /\ ratings = None /\ completed = None /\ updatedAt = None /\ rowOrder = None
    /\ genreRows = None /\ orderByAlias = None
    /\ slides = None /\ activeIndex = None /\ loading = None /\ fetchState = None
    /\ timer = None /\ mounted = None
    /\ pcCollab = None /\ pcContent = None /\ collabLocals = None /\ contentLocals = None
    /\ collaborativeRecs = None /\ contentBasedRecs = None /\ settled = None

\* One of the two functions is called on a pair of arguments and on the same
\* pair swapped; vector1 and vector2 are the ratings the first call compares.
CallPearson ==
    /\ call = NoCall
    /\ \E op \in PearsonOperations :
         \E first \in ArgumentsOf(op) : \E second \in ArgumentsOf(op) :
            /\ call' = [op |-> op, first |-> first, second |-> second,
                        vector1 |-> ComparedRatings(op, first, second)[1],
                        vector2 |-> ComparedRatings(op, first, second)[2]]
            /\ result' = [forward |-> calculatePearsonCorrelationOf(op, first, second),
                          backward |-> calculatePearsonCorrelationOf(op, second, first)]
    /\ pc' = "settled"
    /\ UNCHANGED <<edges, locals, storeVars, heroVars, mergeVars, engVars>>

NextPearson == CallPearson \/ Respond

SpecPearson == InitPearson /\ [][NextPearson]_vars

IsConstant(v) == \A i \in 1..Len(v) : v[i] = v[1]

\* C20: calculatePearsonCorrelation is symmetric: swapping the two rating
\* vectors of equal length, or the two rating maps, gives the same
\* coefficient.
C20_PearsonSymmetric ==
    call.op \in PearsonOperations => result.forward = result.backward

\* C21: calculatePearsonCorrelation returns 0 and raises no error whenever
\* all the compared ratings of at least one side are equal, and in the
\* map-based version also when the two maps have no content in common.
C21_ZeroVarianceGivesZero ==
    (/\ call.op \in PearsonOperations
     /\ Len(call.vector1) = Len(call.vector2)
     /\ IsConstant(call.vector1) \/ IsConstant(call.vector2))
        => result.forward = Returned(Zero)

\* C22: for vectors of equal length of ratings between 1 and 5 the
\* coefficient returned lies in [-1, 1], and it is 1 when the two vectors
\* are identical and not constant.
C22_CoefficientWithinUnitInterval ==
    (call.op \in PearsonOperations /\ ~result.forward.threw) =>
        /\ ~Less(One, Magnitude(result.forward.value))
        /\ (call.vector1 = call.vector2 /\ ~IsConstant(call.vector1))
               => result.forward.value = One
(***************************************************************************)
(* SpecHero: the HeroSection component (src/unnamed/part_005).  The state  *)
(* is taken after the first render and its effects: the featured-content   *)
(* request is in flight and the rotation interval runs with the            *)
(* slides.length of that render, 0, in its callback.  A state update       *)
(* re-renders and commits; the rotation effect is a passive effect: when   *)
(* slides.length changed, React runs its cleanup and its body after the    *)
(* commit, in a later task or at the start of the next synchronous render, *)
(* whichever comes first.  Until then the interval of the previous run is  *)
(* still set.  timer.length is the slides.length the interval in place     *)
(* closes over, so the effect is pending exactly when it differs from      *)
(* Len(slides).  The sources do not fix the React release nor how the root *)
(* is created: with batched updates the two setters after the await give   *)
(* one render, with a legacy root each of them renders synchronously; the  *)
(* cleanup of an unmounted component runs with the unmount before React    *)
(* 17 and after it, as a passive effect, from React 17 on.                 *)
(***************************************************************************)
MaxSlides == 3      \* longest list GET /content/featured answers with

\* A JavaScript number that is an index, or NaN.
Number(v) == [nan |-> FALSE, value |-> v]
NaN == [nan |-> TRUE, value |-> 0]

\* prevIndex + 1
PlusOne(x) == IF x.nan THEN NaN ELSE Number(x.value + 1)

\* x % n: NaN when x is NaN or n is 0
Remainder(x, n) == IF x.nan \/ n = 0 THEN NaN ELSE Number(x.value % n)

\* The lists the endpoint can answer with: distinct content ids.
FeaturedLists ==
    {list \in SeqsUpTo(Items, MaxSlides) :
        \A i, j \in 1..Len(list) : i # j => list[i] # list[j]}

InitHero ==
    /\ slides = <<>>
    /\ activeIndex = Number(0)
    /\ loading = TRUE
    /\ fetchState = "pending"
    /\ timer = [running |-> TRUE, length |-> 0]
    /\ mounted = TRUE
    /\ allRecommendations = None /\ uniqueRecommendations = None
    /\ personalized = None /\ mergeLimit = None
    /\ ratings = None /\ completed = None /\ updatedAt = None /\ rowOrder = None
    /\ genreRows = None /\ orderByAlias = None
    /\ call = None /\ result = None /\ edges = None /\ pc = None /\ locals = None
    /\ pcCollab = None /\ pcContent = None /\ collabLocals = None /\ contentLocals = None
    /\ collaborativeRecs = None /\ contentBasedRecs = None /\ settled = None

otherVars == <<mergeVars, storeVars, svcVars, engVars>>

\* The rotation effect has not yet run for the slides.length committed.
EffectPending == mounted /\ timer.length # Len(slides)

\* line 373 then line 369: clearInterval of the interval in place and
\* setInterval with a callback that closes over the committed slides.length
Rerun(t) == IF EffectPending THEN [running |-> TRUE, length |-> Len(slides)] ELSE t

\* line 356-358 with batched updates: the request resolves; setSlides and
\* setLoading(false) give one render.  The interval is left as it is.
FetchResolves ==
    /\ fetchState = "pending"
    /\ fetchState' = "resolved"
    /\ \E data \in FeaturedLists :
          IF mounted
          THEN /\ slides' = data
               /\ loading' = FALSE
          ELSE UNCHANGED <<slides, loading>>
    /\ UNCHANGED <<activeIndex, timer, mounted, otherVars>>

\* line 356-357 on a legacy root: the request resolves and setSlides renders
\* synchronously; the continuation is at setLoading
FetchSetsSlides ==
    /\ fetchState = "pending"
    /\ fetchState' = "line 358"
    /\ \E data \in FeaturedLists :
          slides' = IF mounted THEN data ELSE slides
    /\ UNCHANGED <<activeIndex, loading, timer, mounted, otherVars>>

\* line 358 on a legacy root: setLoading(false) renders synchronously; the
\* render first runs the rotation effect left pending by the render before
FetchSetsLoading ==
    /\ fetchState = "line 358"
    /\ fetchState' = "resolved"
    /\ loading' = IF mounted THEN FALSE ELSE loading
    /\ timer' = Rerun(timer)
    /\ UNCHANGED <<slides, activeIndex, mounted, otherVars>>

\* line 368-374: the pending rotation effect runs in a task of its own
RotationEffect ==
    /\ fetchState # "line 358"
    /\ EffectPending
    /\ timer' = Rerun(timer)
    /\ UNCHANGED <<slides, activeIndex, loading, fetchState, mounted, otherVars>>

\* line 359-361: the request fails; setLoading(false)
FetchRejects ==
    /\ fetchState = "pending"
    /\ fetchState' = "rejected"
    /\ loading' = IF mounted THEN FALSE ELSE loading
    /\ UNCHANGED <<slides, activeIndex, timer, mounted, otherVars>>

\* line 369-371: the interval in place fires;
\* setActiveIndex(prevIndex => (prevIndex + 1) % slides.length).  The setter
\* of an unmounted component changes no state.
TimerTick ==
    /\ fetchState # "line 358"
    /\ timer.running
    /\ activeIndex' = IF mounted THEN Remainder(PlusOne(activeIndex), timer.length)
                      ELSE activeIndex
    /\ UNCHANGED <<slides, loading, fetchState, timer, mounted, otherVars>>

\* line 407-412: a click on a rendered indicator; setActiveIndex(index).
\* A new index renders synchronously, and the render first runs a pending
\* rotation effect; the index already shown gives no render, and whether the
\* event itself runs the pending effect depends on the React release.
ClickIndicator ==
    /\ fetchState # "line 358"
    /\ mounted
    /\ ~loading
    /\ Len(slides) > 0                                    \* line 376-378
    /\ \E index \in 0..(Len(slides) - 1) :
          /\ activeIndex' = Number(index)
          /\ \/ timer' = Rerun(timer)
             \/ /\ activeIndex = Number(index)
                /\ timer' = timer
    /\ UNCHANGED <<slides, loading, fetchState, mounted, otherVars>>

\* The component unmounts.  The cleanup of line 373 runs in the same commit
\* (before React 17) or is left to run as a passive effect.
Unmount ==
    /\ fetchState # "line 358"
    /\ mounted
    /\ mounted' = FALSE
    /\ \/ timer' = [timer EXCEPT !.running = FALSE]
       \/ timer' = timer
    /\ UNCHANGED <<slides, activeIndex, loading, fetchState, otherVars>>

\* line 373: the cleanup of the unmounted component runs;
\* clearInterval(timer)
UnmountCleanup ==
    /\ fetchState # "line 358"
    /\ ~mounted
    /\ timer.running
    /\ timer' = [timer EXCEPT !.running = FALSE]
    /\ UNCHANGED <<slides, activeIndex, loading, fetchState, mounted, otherVars>>

NextHero ==
    \/ FetchResolves
    \/ FetchSetsSlides
    \/ FetchSetsLoading
    \/ RotationEffect
    \/ FetchRejects
    \/ TimerTick
    \/ ClickIndicator
    \/ Unmount
    \/ UnmountCleanup

SpecHero == InitHero /\ [][NextHero]_vars

\* C30: in HeroSection activeIndex is never left at a value rotation cannot
\* recover from, and whenever slides is non-empty it is an integer in
\* [0, slides.length), whatever the order of the fetch completing, the
\* timer firing and the indicator clicks.
C30_ActiveIndexWithinSlides ==
    /\ ~activeIndex.nan
    /\ Len(slides) > 0 => activeIndex.value \in 0..(Len(slides) - 1)
====
